---------------------------- MODULE Spec2Model ----------------------------
(***************************************************************************)
(* A model of the article-extraction pipeline of app.py:                   *)
(*   _extract_infzm_content_id, _fetch_infzm_article,                      *)
(*   fetch_article_from_url, _extract_html_metadata,                       *)
(*   _try_extract_json_content, _extract_from_nextdata,                    *)
(*   _clean_article_text.                                                  *)
(*                                                                         *)
(* Strings are sequences of one-character strings.  The module is ASCII,   *)
(* so the non-ASCII characters the code tests for have stand-ins:          *)
(*   "H", "B"  CJK ideographs (U+4E00..U+9FFF)                            *)
(*   "@"  the copyright sign, the one-character footer marker              *)
(*   "~"  the en dash, "^" the em dash (title separators)                  *)
(* A parsed HTML fragment is the sequence of its text nodes.               *)
(***************************************************************************)
EXTENDS Naturals, Integers, Sequences, FiniteSets

VARIABLES
    pc,         \* fetch_article_from_url: the position of the call
    url,        \* its argument
    infzm_id,   \* its local infzm_id (line 176)
    result,     \* its local result (lines 178 and 193)
    soup,       \* its local soup (line 190), None before the page is parsed
    wire,       \* the response in flight to the request just sent, else None
    returned,   \* what the call returned, Raise(e) for an exception that
                \* left it, None before it ends
    log,        \* the requests sent and the strategies run so far, in order
    fn,         \* a helper called on its own: its name ("none": no such call)
    arg,        \* the argument of that call
    ret,        \* what it returned, None before it returns
    history,    \* the rows of the history table: id, folder_id, position
    folders,    \* the rows of the folders table: id, position
    sqlite_sequence  \* the largest id AUTOINCREMENT has given in each table

vars == <<pc, url, infzm_id, result, soup, wire, returned, log, fn, arg, ret,
          history, folders, sqlite_sequence>>

---------------------------------------------------------------------------
(* Python values *)

\* Every Python value carries its type in t.  A dict decoded from JSON is
\* Obj(o), o a function from its keys; a list is known by its length alone.
None == [t |-> "None"]
Str(s) == [t |-> "str", s |-> s]
Num(n) == [t |-> "int", n |-> n]
List(n) == [t |-> "list", n |-> n]
Obj(o) == [t |-> "obj", o |-> o]
EmptyObj == Obj([k \in {} |-> None])
EmptyStr == Str(<<>>)
\* a raised exception, in place of the value of the call that raised it
Raise(e) == [t |-> "exc", e |-> e]

IsObj(v) == v.t = "obj"
IsStr(v) == v.t = "str"
IsExc(v) == v.t = "exc"

\* bool(v)
Truthy(v) ==
    CASE v.t = "None" -> FALSE
      [] v.t = "str" -> v.s # <<>>
      [] v.t = "int" -> v.n # 0
      [] v.t = "list" -> v.n # 0
      [] v.t = "obj" -> DOMAIN v.o # {}
      [] OTHER -> TRUE

\* x or y
Or(x, y) == IF Truthy(x) THEN x ELSE y

\* d.get(k, default) on a dict d
Get(d, k, default) == IF k \in DOMAIN d.o THEN d.o[k] ELSE default

NL == "\n"
CopyrightSign == "@"
Whitespace == {" ", NL}
Digits == {"0", "1", "2", "3", "4", "5", "6", "7", "8", "9"}

\* '\u4e00' <= c <= '\u9fff': "H" is any such ideograph, "B" the one that
\* ends the footer marker "ICP" + U+5907
IsCJK(c) == c \in {"H", "B"}

RECURSIVE Concat(_)
\* "".join(parts)
Concat(parts) ==
    IF parts = <<>> THEN <<>> ELSE Head(parts) \o Concat(Tail(parts))

RECURSIVE Join(_, _)
\* sep.join(parts)
Join(sep, parts) ==
    IF parts = <<>> THEN <<>>
    ELSE IF Len(parts) = 1 THEN parts[1]
    ELSE parts[1] \o sep \o Join(sep, Tail(parts))

RECURSIVE LStrip(_)
LStrip(s) ==
    IF s # <<>> /\ Head(s) \in Whitespace THEN LStrip(Tail(s)) ELSE s

RECURSIVE RStrip(_)
RStrip(s) ==
    IF s # <<>> /\ s[Len(s)] \in Whitespace
    THEN RStrip(SubSeq(s, 1, Len(s) - 1)) ELSE s

\* str.strip()
Strip(s) == RStrip(LStrip(s))

\* s[:n]
Prefix(s, n) == SubSeq(s, 1, IF Len(s) < n THEN Len(s) ELSE n)

\* s[i:] with i counted from 1
Suffix(s, i) == SubSeq(s, i, Len(s))

\* whether lit occurs in s starting at position i
MatchLit(s, i, lit) ==
    /\ i + Len(lit) - 1 <= Len(s)
    /\ \A k \in 1..Len(lit) : s[i + k - 1] = lit[k]

\* sub in s
Contains(s, sub) == \E i \in 1..(Len(s) + 1) : MatchLit(s, i, sub)

RECURSIVE SplitLines(_)
\* str.splitlines(): a trailing line break opens no further line
SplitLines(s) ==
    IF s = <<>> THEN <<>>
    ELSE LET brk == {i \in 1..Len(s) : s[i] = NL}
         IN  IF brk = {} THEN <<s>>
             ELSE LET i == CHOOSE j \in brk : \A k \in brk : j <= k
                  IN  <<SubSeq(s, 1, i - 1)>> \o SplitLines(Suffix(s, i + 1))

RECURSIVE StrippedNodes(_)
\* the text nodes of a fragment, each stripped, the empty ones dropped
StrippedNodes(nodes) ==
    IF nodes = <<>> THEN <<>>
    ELSE LET t == Strip(Head(nodes))
         IN  (IF t = <<>> THEN <<>> ELSE <<t>>) \o StrippedNodes(Tail(nodes))

\* BeautifulSoup get_text(separator="\n", strip=True)
get_text(nodes) == Join(<<NL>>, StrippedNodes(nodes))

\* the length of the longest run of characters of set cs starting at s[i]
RECURSIVE RunLen(_, _, _)
RunLen(s, i, cs) ==
    IF i <= Len(s) /\ s[i] \in cs THEN 1 + RunLen(s, i + 1, cs) ELSE 0

Min(S) == CHOOSE x \in S : \A y \in S : x <= y

DigitChar(d) == <<"0", "1", "2", "3", "4", "5", "6", "7", "8", "9">>[d + 1]

RECURSIVE Decimal(_)
\* str(n) of a non-negative int
Decimal(n) ==
    IF n < 10 THEN <<DigitChar(n)>>
    ELSE Decimal(n \div 10) \o <<DigitChar(n % 10)>>

RECURSIVE ParseHtml(_)
\* BeautifulSoup(markup, "html.parser"): the text nodes of the markup, a
\* tag being "<" up to the next ">"
ParseHtml(m) ==
    IF m = <<>> THEN <<>>
    ELSE LET lt == {i \in 1..Len(m) : m[i] = "<"}
         IN  IF lt = {} THEN <<m>>
             ELSE LET i == Min(lt)
                      gt == {j \in i..Len(m) : m[j] = ">"}
                  IN  IF gt = {} THEN <<m>>
                      ELSE (IF i = 1 THEN <<>> ELSE <<SubSeq(m, 1, i - 1)>>)
                           \o ParseHtml(Suffix(m, Min(gt) + 1))

---------------------------------------------------------------------------
(* _clean_article_text *)

\* the footer markers that can be written in the alphabet: the copyright
\* sign and "ICP" + U+5907 (lines 456-461)
footer_markers == {<<CopyrightSign>>, <<"I", "C", "P", "B">>}

RECURSIVE CleanLinesFilter(_, _)
\* CleanLines with the marker line skipped instead of ending the loop
CleanLinesFilter(rest, acc) ==
    IF rest = <<>> THEN acc
    ELSE LET line == Strip(Head(rest))
         IN  IF line = <<>> THEN CleanLinesFilter(Tail(rest), acc)
             ELSE IF \E marker \in footer_markers : Contains(line, marker)
                  THEN CleanLinesFilter(Tail(rest), acc)
             ELSE IF Len(line) <= 4 /\ ~ \E i \in 1..Len(line) : IsCJK(line[i])
                  THEN CleanLinesFilter(Tail(rest), acc)
             ELSE CleanLinesFilter(Tail(rest), Append(acc, line))

RECURSIVE CleanLinesRawLength(_, _)
\* CleanLines with the length of the line taken before it is stripped
CleanLinesRawLength(rest, acc) ==
    IF rest = <<>> THEN acc
    ELSE LET line == Strip(Head(rest))
         IN  IF line = <<>> THEN CleanLinesRawLength(Tail(rest), acc)
             ELSE IF \E marker \in footer_markers : Contains(line, marker)
                  THEN acc
             ELSE IF Len(Head(rest)) <= 4 /\ ~ \E i \in 1..Len(line) : IsCJK(line[i])
                  THEN CleanLinesRawLength(Tail(rest), acc)
             ELSE CleanLinesRawLength(Tail(rest), Append(acc, line))

RECURSIVE CleanLinesStopAtShort(_, _)
\* CleanLines with the loop ended at a short line without ideograph
CleanLinesStopAtShort(rest, acc) ==
    IF rest = <<>> THEN acc
    ELSE LET line == Strip(Head(rest))
         IN  IF line = <<>> THEN CleanLinesStopAtShort(Tail(rest), acc)
             ELSE IF \E marker \in footer_markers : Contains(line, marker)
                  THEN acc
             ELSE IF Len(line) <= 4 /\ ~ \E i \in 1..Len(line) : IsCJK(line[i])
                  THEN acc
             ELSE CleanLinesStopAtShort(Tail(rest), Append(acc, line))

RECURSIVE CleanLines(_, _)
\* the loop of lines 464-474 over the remaining lines, acc the kept ones
CleanLines(rest, acc) ==
    IF rest = <<>> THEN acc
    ELSE LET line == Strip(Head(rest))
         IN  IF line = <<>> THEN CleanLines(Tail(rest), acc)
             ELSE IF \E marker \in footer_markers : Contains(line, marker)
                  THEN acc
             ELSE IF Len(line) <= 4 /\ ~ \E i \in 1..Len(line) : IsCJK(line[i])
                  THEN CleanLines(Tail(rest), acc)
             ELSE CleanLines(Tail(rest), Append(acc, line))

_clean_article_text(raw) == Join(<<NL>>, CleanLines(SplitLines(raw), <<>>))

---------------------------------------------------------------------------
(* _extract_infzm_content_id *)

InfzmWap == <<"i","n","f","z","m",".","c","o","m","/","w","a","p">>
HashContent == <<"#","/","c","o","n","t","e","n","t","/">>
InfzmContents ==
    <<"i","n","f","z","m",".","c","o","m","/","c","o","n","t","e","n","t","s","/">>

\* r'infzm\.com/wap/?#/content/(\d+)' matched at position i: the position
\* of the group's first digit, 0 when there is no match at i
HashMatchAt(u, i) ==
    IF ~ MatchLit(u, i, InfzmWap) THEN 0
    ELSE LET j == i + Len(InfzmWap)
             k == IF MatchLit(u, j, <<"/">>) /\ MatchLit(u, j + 1, HashContent)
                  THEN j + 1
                  ELSE IF MatchLit(u, j, HashContent) THEN j ELSE 0
         IN  IF k = 0 THEN 0
             ELSE IF RunLen(u, k + Len(HashContent), Digits) = 0 THEN 0
             ELSE k + Len(HashContent)

\* r'infzm\.com/contents/(\d+)' matched at position i
ContentsMatchAt(u, i) ==
    IF ~ MatchLit(u, i, InfzmContents) THEN 0
    ELSE IF RunLen(u, i + Len(InfzmContents), Digits) = 0 THEN 0
    ELSE i + Len(InfzmContents)

\* re.search(...).group(1): the leftmost match, the digits taken greedily
SearchHash(u) ==
    LET at == {i \in 1..Len(u) : HashMatchAt(u, i) # 0}
    IN  IF at = {} THEN None
        ELSE LET g == HashMatchAt(u, Min(at))
             IN  Str(SubSeq(u, g, g + RunLen(u, g, Digits) - 1))

SearchContents(u) ==
    LET at == {i \in 1..Len(u) : ContentsMatchAt(u, i) # 0}
    IN  IF at = {} THEN None
        ELSE LET g == ContentsMatchAt(u, Min(at))
             IN  Str(SubSeq(u, g, g + RunLen(u, g, Digits) - 1))

\* _extract_infzm_content_id trying the server-rendered pattern first
ContentIdContentsFirst(u) ==
    IF SearchContents(u) # None THEN SearchContents(u)
    ELSE IF SearchHash(u) # None THEN SearchHash(u)
    ELSE None

_extract_infzm_content_id(u) ==
    IF SearchHash(u) # None THEN SearchHash(u)
    ELSE IF SearchContents(u) # None THEN SearchContents(u)
    ELSE None

---------------------------------------------------------------------------
(* _fetch_infzm_article *)

Meterage == <<"m","e","t","e","r","a","g","e">>
Pay == <<"p","a","y">>
\* the fixed outlet name of line 162 (four ideographs)
InfzmSourceName == <<"H","H","H","H">>

NoteHead ==
    <<"[","N","o","t","e",":"," ","T","h","i","s"," ","a","r","t","i","c","l","e"," ","i","s"," ","b","e","h","i","n","d"," ","a"," ","p","a","y","w","a","l","l","."," ">>
    \o <<"O","n","l","y"," ","a"," ","p","r","e","v","i","e","w"," ","(","~">>
NoteTail == <<" ","c","h","a","r","a","c","t","e","r","s",")"," ","i","s"," ","a","v","a","i","l","a","b","l","e",".","]">>

\* the f-string of line 155
PaywallNote(n, word_count) ==
    <<NL, NL>> \o NoteHead \o Decimal(n) \o <<" ","o","f"," ","~">>
    \o Decimal(word_count) \o NoteTail

\* InfzmFromContent with the text tested for emptiness before the paywall
\* note is appended to it
InfzmFromContentNoteOnBody(c) ==
    IF ~ IsObj(c) THEN Raise("AttributeError")
    ELSE
    LET fulltext_html == Get(c, "fulltext", EmptyStr)
        word_count == Get(c, "word_count", Num(0))
        pay_prop == Or(Get(c, "pay_property", EmptyObj), EmptyObj)
        publish_time == Or(Get(c, "publish_time", None), EmptyStr)
    IN  IF Truthy(fulltext_html) /\ ~ IsStr(fulltext_html) THEN Raise("TypeError")
        ELSE IF ~ IsObj(pay_prop) THEN Raise("AttributeError")
        ELSE
        LET text == IF Truthy(fulltext_html)
                    THEN get_text(ParseHtml(fulltext_html.s)) ELSE <<>>
            mode == Get(pay_prop, "mode", None)
            is_paid == mode \in {Str(Meterage), Str(Pay)}
        IN  IF is_paid /\ Truthy(word_count) /\ word_count.t # "int"
            THEN Raise("TypeError")
            ELSE IF ~ IsStr(publish_time) THEN Raise("TypeError")
            ELSE
            LET noted == IF is_paid /\ Truthy(word_count)
                            /\ 2 * Len(text) < word_count.n
                         THEN text \o PaywallNote(Len(text), word_count.n)
                         ELSE text
            IN  [t |-> "result",
                 text |-> IF text # <<>> THEN _clean_article_text(noted) ELSE <<>>,
                 title |-> Get(c, "subject", EmptyStr),
                 source_name |-> Str(InfzmSourceName),
                 author |-> Get(c, "author", EmptyStr),
                 pub_date |-> Str(Prefix(publish_time.s, 10))]

\* lines 140-165, c the non-empty content object of the response
InfzmFromContent(c) ==
    IF ~ IsObj(c) THEN Raise("AttributeError")
    ELSE
    LET fulltext_html == Get(c, "fulltext", EmptyStr)
        word_count == Get(c, "word_count", Num(0))
        pay_prop == Or(Get(c, "pay_property", EmptyObj), EmptyObj)
        publish_time == Or(Get(c, "publish_time", None), EmptyStr)
    IN  IF Truthy(fulltext_html) /\ ~ IsStr(fulltext_html) THEN Raise("TypeError")
        ELSE IF ~ IsObj(pay_prop) THEN Raise("AttributeError")
        ELSE
        LET text == IF Truthy(fulltext_html)
                    THEN get_text(ParseHtml(fulltext_html.s)) ELSE <<>>
            mode == Get(pay_prop, "mode", None)
            is_paid == mode \in {Str(Meterage), Str(Pay)}
        IN  IF is_paid /\ Truthy(word_count) /\ word_count.t # "int"
            THEN Raise("TypeError")
            ELSE IF ~ IsStr(publish_time) THEN Raise("TypeError")
            ELSE
            LET noted == IF is_paid /\ Truthy(word_count)
                            /\ 2 * Len(text) < word_count.n
                         THEN text \o PaywallNote(Len(text), word_count.n)
                         ELSE text
            IN  [t |-> "result",
                 text |-> IF noted # <<>> THEN _clean_article_text(noted) ELSE <<>>,
                 title |-> Get(c, "subject", EmptyStr),
                 source_name |-> Str(InfzmSourceName),
                 author |-> Get(c, "author", EmptyStr),
                 pub_date |-> Str(Prefix(publish_time.s, 10))]

\* InfzmBody without the check of line 137
InfzmBodyNoEmptyCheck(r) ==
    IF r.kind # "response" THEN Raise("RequestException")
    ELSE IF r.status_code # 200 THEN None
    ELSE IF ~ r.is_json THEN Raise("JSONDecodeError")
    ELSE IF ~ IsObj(r.json) THEN Raise("AttributeError")
    ELSE IF ~ IsObj(Get(r.json, "data", EmptyObj)) THEN Raise("AttributeError")
    ELSE InfzmFromContent(Get(Get(r.json, "data", EmptyObj), "content", EmptyObj))

\* lines 129-138: the response to the one request.  r.kind is
\* "ConnectionError" (requests.get raised), or "response" with status_code,
\* is_json (whether resp.json() decodes the body) and json (what it gives)
InfzmBody(r) ==
    IF r.kind # "response" THEN Raise("RequestException")
    ELSE IF r.status_code # 200 THEN None
    ELSE IF ~ r.is_json THEN Raise("JSONDecodeError")
    ELSE IF ~ IsObj(r.json) THEN Raise("AttributeError")
    ELSE LET d == Get(r.json, "data", EmptyObj)
         IN  IF ~ IsObj(d) THEN Raise("AttributeError")
             ELSE LET c == Get(d, "content", EmptyObj)
                  IN  IF ~ Truthy(c) THEN None ELSE InfzmFromContent(c)

\* the try ... except Exception: return None around the whole body
_fetch_infzm_article(r) ==
    IF IsExc(InfzmBody(r)) THEN None ELSE InfzmBody(r)

---------------------------------------------------------------------------
(* _extract_from_nextdata *)

DateSeps == {"-", "/"}

IsDigitAt(s, i) == i <= Len(s) /\ s[i] \in Digits
IsSepAt(s, i) == i <= Len(s) /\ s[i] \in DateSeps

\* re.match(r"(\d{4}[-/]\d{1,2}[-/]\d{1,2})", s): the length of group 1,
\* 0 when there is no match; \d{1,2} is greedy and gives one digit back
\* when the separator does not follow two
DateMatchLen(s) ==
    IF ~ ((\A i \in 1..4 : IsDigitAt(s, i)) /\ IsSepAt(s, 5) /\ IsDigitAt(s, 6))
    THEN 0
    ELSE IF IsDigitAt(s, 7) /\ IsSepAt(s, 8) /\ IsDigitAt(s, 9)
         THEN (IF IsDigitAt(s, 10) THEN 10 ELSE 9)
    ELSE IF IsSepAt(s, 7) /\ IsDigitAt(s, 8)
         THEN (IF IsDigitAt(s, 9) THEN 9 ELSE 8)
    ELSE 0

\* s.replace("/", "-")
SlashToDash(s) == [i \in 1..Len(s) |-> IF s[i] = "/" THEN "-" ELSE s[i]]

\* str(v): of a list or a dict only the brackets are kept
PyStr(v) ==
    CASE v.t = "int" -> Decimal(v.n)
      [] v.t = "str" -> v.s
      [] v.t = "list" -> <<"[", "]">>
      [] OTHER -> <<"{", "}">>

RECURSIVE NonEmpty(_)
\* filter(None, strings)
NonEmpty(ss) ==
    IF ss = <<>> THEN <<>>
    ELSE (IF Head(ss) = <<>> THEN <<>> ELSE <<Head(ss)>>) \o NonEmpty(Tail(ss))

\* lines 400-432: the contentDetail dict of thepaper.cn
FromContentDetail(detail) ==
    IF ~ IsObj(detail) THEN Raise("AttributeError")
    ELSE
    LET title == Get(detail, "name", EmptyStr)
        author0 == Or(Get(detail, "author", None), EmptyStr)
        source0 == Or(Get(detail, "source", None), EmptyStr)
        pub_time == Or(Or(Get(detail, "pubTimeLong", None),
                          Get(detail, "pubTime", None)), EmptyStr)
        content_html == Get(detail, "content", EmptyStr)
    IN  IF ~ IsStr(author0) \/ ~ IsStr(source0) THEN Raise("AttributeError")
        ELSE IF ~ IsStr(content_html) THEN Raise("TypeError")
        ELSE IF Truthy(title) /\ ~ IsStr(title) THEN Raise("TypeError")
        ELSE
        LET author == Strip(author0.s)
            source == Strip(source0.s)
            body == get_text(ParseHtml(content_html.s))
            meta_line == Join(<<" ", "|", " ">>,
                              NonEmpty(<<author, source, PyStr(pub_time)>>))
            parts == (IF Truthy(title) THEN <<title.s>> ELSE <<>>)
                     \o (IF meta_line # <<>> THEN <<meta_line>> ELSE <<>>)
                     \o (IF body # <<>> THEN <<body>> ELSE <<>>)
            pub_str == Strip(PyStr(pub_time))
            pub_date == IF Truthy(pub_time) /\ DateMatchLen(pub_str) > 0
                        THEN SlashToDash(Prefix(pub_str, DateMatchLen(pub_str)))
                        ELSE <<>>
        IN  [t |-> "result",
             text |-> Join(<<NL>>, parts),
             title |-> title,
             source_name |-> Str(source),
             author |-> Str(author),
             pub_date |-> Str(pub_date)]

\* len(v) of a str, a list or a dict
PyLen(v) ==
    CASE v.t = "str" -> Len(v.s)
      [] v.t = "list" -> v.n
      [] OTHER -> Cardinality(DOMAIN v.o)

GenericKeys == <<"article", "post", "news", "detail", "data">>

\* lines 438-450: obj a dict under one of the generic keys; None when the
\* loop goes on to the next key
FromGenericObj(obj) ==
    LET content == Or(Get(obj, "content", None),
                      Or(Get(obj, "body", None),
                         Or(Get(obj, "text", None), EmptyStr)))
        title == Get(obj, "title", EmptyStr)
        date0 == Or(Or(Get(obj, "publishTime", EmptyStr),
                       Get(obj, "pubDate", EmptyStr)), EmptyStr)
    IN  IF ~ Truthy(content) THEN None
        ELSE IF content.t \notin {"str", "list", "obj"} THEN Raise("TypeError")
        ELSE IF ~ (PyLen(content) > 50) THEN None
        ELSE IF ~ IsStr(content) THEN Raise("TypeError")
        ELSE IF Truthy(title) /\ ~ IsStr(title) THEN Raise("TypeError")
        ELSE IF ~ IsStr(date0) THEN Raise("TypeError")
        ELSE
        LET body == get_text(ParseHtml(content.s))
        IN  [t |-> "result",
             text |-> IF Truthy(title) THEN title.s \o <<NL>> \o body ELSE body,
             title |-> title,
             source_name |-> Or(Get(obj, "source", EmptyStr), EmptyStr),
             author |-> Or(Get(obj, "author", EmptyStr), EmptyStr),
             pub_date |-> Str(Prefix(date0.s, 10))]

RECURSIVE FromGenericKeys(_, _)
\* the loop of lines 435-450 from key number i on
FromGenericKeys(props, i) ==
    IF i > Len(GenericKeys) THEN None
    ELSE LET obj == Get(props, GenericKeys[i], EmptyObj)
         IN  IF IsObj(obj) /\ FromGenericObj(obj) # None
             THEN FromGenericObj(obj)
             ELSE FromGenericKeys(props, i + 1)

_extract_from_nextdata(data) ==
    IF ~ IsObj(data) THEN Raise("AttributeError")
    ELSE IF ~ IsObj(Get(data, "props", EmptyObj)) THEN Raise("AttributeError")
    ELSE
    LET props == Get(Get(data, "props", EmptyObj), "pageProps", EmptyObj)
    IN  IF ~ IsObj(props) THEN Raise("AttributeError")
        ELSE IF ~ IsObj(Get(props, "detailData", EmptyObj))
             THEN Raise("AttributeError")
        ELSE
        LET detail == Get(Get(props, "detailData", EmptyObj),
                          "contentDetail", EmptyObj)
        IN  IF Truthy(detail) THEN FromContentDetail(detail)
            ELSE FromGenericKeys(props, 1)

---------------------------------------------------------------------------
(* _try_extract_json_content *)

(* The text of a script tag (script.string) is one of                      *)
(*   [kind |-> "none"]              no single string child                 *)
(*   [kind |-> "json", json |-> v]  a JSON document that decodes to v      *)
(*   [kind |-> "js", mentions |-> b, blob |-> x]  other text: b whether it *)
(*       holds "contentDetail" or "articleBody"; x what the object literal *)
(*       the regex of line 367 cuts out decodes to: None when the regex    *)
(*       finds nothing, Raise("JSONDecodeError") when it does not decode   *)

RECURSIVE HasKey(_, _)
\* whether one of the keys ks occurs in the JSON text of v, at any depth
HasKey(v, ks) ==
    IsObj(v) /\ \E k \in DOMAIN v.o : k \in ks \/ HasKey(v.o[k], ks)

\* line 365
Mentions(txt) ==
    CASE txt.kind = "none" -> FALSE
      [] txt.kind = "json" -> HasKey(txt.json, {"contentDetail", "articleBody"})
      [] OTHER -> txt.mentions

\* lines 367-371: None without a match, else what json.loads gives
BlobData(txt) ==
    CASE txt.kind = "json" ->
            IF IsObj(txt.json) /\ HasKey(txt.json, {"contentDetail", "content_detail"})
            THEN txt.json ELSE None
      [] OTHER -> txt.blob

\* data.get(key, {}).get("content")
DetailContent(data, key) ==
    IF ~ IsObj(Get(data, key, EmptyObj)) THEN Raise("AttributeError")
    ELSE Get(Get(data, key, EmptyObj), "content", None)

\* lines 372-384 for the decoded literal: the result, None when body is
\* empty, or the exception raised
FromBlob(data) ==
    IF ~ IsObj(data) THEN Raise("AttributeError")
    ELSE
    LET first == DetailContent(data, "contentDetail")
        body == IF IsExc(first) THEN first
                ELSE IF Truthy(first) THEN first
                ELSE IF IsExc(DetailContent(data, "content_detail"))
                     THEN DetailContent(data, "content_detail")
                ELSE Or(DetailContent(data, "content_detail"), EmptyStr)
    IN  IF IsExc(body) THEN body
        ELSE IF ~ Truthy(body) THEN None
        ELSE IF ~ IsStr(body) THEN Raise("TypeError")
        ELSE [t |-> "result",
              text |-> _clean_article_text(get_text(ParseHtml(body.s))),
              title |-> EmptyStr,
              source_name |-> EmptyStr,
              author |-> EmptyStr,
              pub_date |-> EmptyStr]

RECURSIVE ScanScripts(_, _)
\* the loop of lines 363-386 from script number i on; JSONDecodeError and
\* AttributeError are caught and the loop goes on
ScanScripts(scripts, i) ==
    IF i > Len(scripts) THEN None
    ELSE LET txt == scripts[i].string
             data == BlobData(txt)
             r == IF data = None \/ IsExc(data) THEN None ELSE FromBlob(data)
         IN  IF ~ Mentions(txt) \/ r = None
                \/ (IsExc(r) /\ r.e \in {"JSONDecodeError", "AttributeError"})
             THEN ScanScripts(scripts, i + 1)
             ELSE r

\* soup.find("script", id="__NEXT_DATA__"): its number, 0 when there is none
NextDataScript(scripts) ==
    LET at == {i \in 1..Len(scripts) : scripts[i].id = "__NEXT_DATA__"}
    IN  IF at = {} THEN 0 ELSE Min(at)

\* lines 354-387.  A script with a string that is no JSON raises
\* JSONDecodeError, which is caught; what _extract_from_nextdata returns or
\* raises (other than KeyError) is returned or raised as it is
_try_extract_json_content(s) ==
    LET n == NextDataScript(s.scripts)
    IN  IF n # 0 /\ s.scripts[n].string.kind = "json"
        THEN _extract_from_nextdata(s.scripts[n].string.json)
        ELSE ScanScripts(s.scripts, 1)

---------------------------------------------------------------------------
(* _extract_html_metadata *)

\* [_\-|<en dash><em dash>]
TitleSeps == {"_", "-", "|", "~", "^"}

\* (?!.*[seps]) at position q: no separator from q to the end of the line
\* q is in ("." matches no line break)
NoSepAhead(s, q) ==
    \A j \in q..Len(s) :
        s[j] \in TitleSeps => \E k \in q..(j - 1) : s[k] = NL

\* whether r'\s*[seps]\s*(?!.*[seps])' matches at position i
TitleSplitAt(s, i) ==
    LET a == RunLen(s, i, Whitespace)
        b == RunLen(s, i + a + 1, Whitespace)
    IN  /\ i + a <= Len(s)
        /\ s[i + a] \in TitleSeps
        /\ \E w \in 0..b : NoSepAhead(s, i + a + 1 + w)

\* re.split(..., raw, maxsplit=1)[0]: raw up to the leftmost match
TitleSplit(raw) ==
    LET at == {i \in 1..Len(raw) : TitleSplitAt(raw, i)}
    IN  IF at = {} THEN raw ELSE SubSeq(raw, 1, Min(at) - 1)

\* the content attribute of the first meta tag of that property or name,
\* stripped; the empty string when there is no such tag
MetaContent(s, key) ==
    IF key \in DOMAIN s.meta THEN Strip(s.meta[key]) ELSE <<>>

RECURSIVE FirstContentPresent(_, _)
\* FirstContent stopping at the first tag that is there, empty or not
FirstContentPresent(s, keys) ==
    IF keys = <<>> THEN <<>>
    ELSE IF Head(keys) \in DOMAIN s.meta THEN MetaContent(s, Head(keys))
    ELSE FirstContentPresent(s, Tail(keys))

RECURSIVE FirstContent(_, _)
\* the first non-empty content among the tags keys, in order
FirstContent(s, keys) ==
    IF keys = <<>> THEN <<>>
    ELSE IF MetaContent(s, Head(keys)) # <<>> THEN MetaContent(s, Head(keys))
    ELSE FirstContent(s, Tail(keys))

\* lines 297-308
MetaTitle(s) ==
    IF MetaContent(s, "og:title") # <<>> THEN MetaContent(s, "og:title")
    ELSE IF s.title = None THEN <<>>
    ELSE Strip(TitleSplit(Strip(s.title.s)))

\* lines 310-343
MetaSourceName(s) == FirstContent(s, <<"og:site_name", "source", "publisher">>)
MetaAuthor(s) == FirstContent(s, <<"author", "article:author">>)
MetaPubDate(s) ==
    Prefix(FirstContent(s, <<"article:published_time",
                             "og:article:published_time", "publishdate",
                             "publish_date", "date", "PubDate">>), 10)

\* the dict meta: a key is set only to a non-empty string
_extract_html_metadata(s) ==
    LET all == [title |-> MetaTitle(s), source_name |-> MetaSourceName(s),
                author |-> MetaAuthor(s), pub_date |-> MetaPubDate(s)]
    IN  [k \in {f \in DOMAIN all : all[f] # <<>>} |-> all[k]]

\* meta.get(k, "")
MetaGet(meta, k) == IF k \in DOMAIN meta THEN meta[k] ELSE <<>>

---------------------------------------------------------------------------
(* fetch_article_from_url, lines 198-290: the HTML-based extraction *)

(* The parsed page is [scripts, meta, title, body]: its script tags, its   *)
(* meta tags (property or name |-> content), the text of its title tag     *)
(* (None without one) and the elements of its body in document order, each *)
(* [tag, role, class, id, text] with class the list of its class tokens,   *)
(* "" for a missing role or id, and text its one text node.                *)

RemovedTags ==
    {"nav", "header", "footer", "aside", "noscript", "iframe", "svg", "form",
     "button"}
RemovedRoles == {"navigation", "banner", "complementary", "contentinfo"}
boilerplate_tokens ==
    {"nav", "navbar", "menu", "sidebar", "footer", "header", "banner",
     "breadcrumb", "comments", "share", "social", "related", "recommend",
     "ad", "ads", "advertisement", "app-download", "copyright",
     "disclaimer", "legal", "privacy", "feedback", "login", "signup"}

\* str.lower() of the class and id tokens the documents of the model use
Lower(tok) ==
    CASE tok = "Sidebar" -> "sidebar"
      [] tok = "AD" -> "ad"
      [] tok = "Footer" -> "footer"
      [] tok = "contentWrap__x9" -> "contentwrap__x9"
      [] OTHER -> tok

\* of the class tokens and ids the documents of the model use, those that
\* hold a vocabulary token inside
HoldingTokens == {"navigation", "sidebar-left", "footer-links"}

\* HasBoilerplateClass with a token matched wherever it stands in a class
\* token
HasBoilerplateSubstring(el) ==
    \E i \in 1..Len(el.class) :
        Lower(el.class[i]) \in boilerplate_tokens \cup HoldingTokens

HasBoilerplateClass(el) ==
    \E i \in 1..Len(el.class) : Lower(el.class[i]) \in boilerplate_tokens

\* lines 203-234: the four removal passes
Decomposed(body) ==
    LET Kept(el) == /\ el.tag \notin RemovedTags
                    /\ el.role \notin RemovedRoles
                    /\ ~ HasBoilerplateClass(el)
                    /\ ~ (el.id # "" /\ Lower(el.id) \in boilerplate_tokens)
    IN  SelectSeq(body, Kept)

\* the least number of the set at, 0 when it is empty: find() gives the
\* first match in document order
First(at) == IF at = {} THEN 0 ELSE Min(at)

HasClass(el, c) == \E i \in 1..Len(el.class) : el.class[i] = c

selectors ==
    <<[attr |-> "class", val |-> "article-content"],
      [attr |-> "class", val |-> "article_content"],
      [attr |-> "class", val |-> "news_txt"],
      [attr |-> "class", val |-> "news-content"],
      [attr |-> "class", val |-> "post_body"],
      [attr |-> "class", val |-> "post_text"],
      [attr |-> "id", val |-> "artibody"],
      [attr |-> "id", val |-> "article"]>>

RECURSIVE BySelectors(_, _)
\* the loop of lines 246-249 from selector number k on
BySelectors(els, k) ==
    IF k > Len(selectors) THEN 0
    ELSE LET sel == selectors[k]
             Hit(el) == IF sel.attr = "class" THEN HasClass(el, sel.val)
                        ELSE el.id = sel.val
             hits == {i \in 1..Len(els) : Hit(els[i])}
         IN  IF hits # {} THEN First(hits) ELSE BySelectors(els, k + 1)

\* of the class tokens the documents of the model use: those in which the
\* regex of lines 253-257 finds one of its roots, a "__", and a root with
\* a "__" after it
RootTokens == {"content", "contentWrap__x9", "article-content", "article_content",
               "news_txt", "news-content", "post_body"}
DunderTokens == {"contentWrap__x9", "box__1"}
RootThenDunderTokens == {"contentWrap__x9"}

\* content_class_re.search(" ".join(classes))
content_class_re(classes) ==
    \E i \in 1..Len(classes) :
        \/ classes[i] \in RootThenDunderTokens
        \/ /\ classes[i] \in RootTokens
           /\ \E j \in (i + 1)..Len(classes) : classes[j] \in DunderTokens

\* sum(1 for c in txt if c is a CJK ideograph)
CountCJK(txt) == Cardinality({i \in 1..Len(txt) : IsCJK(txt[i])})

\* DensityFallback choosing the shortest div of the document, whatever
\* its count of ideographs, when there is a candidate
DensityShortestDiv(els) ==
    LET txt(i) == Strip(els[i].text)
        candidates == {i \in 1..Len(els) :
                          els[i].tag = "div" /\ CountCJK(txt(i)) > 100}
        divs == {i \in 1..Len(els) : els[i].tag = "div"}
    IN  IF candidates = {} THEN 0
        ELSE CHOOSE i \in divs :
                 \A j \in divs :
                     \/ Len(txt(i)) < Len(txt(j))
                     \/ Len(txt(i)) = Len(txt(j)) /\ i <= j

\* lines 265-277: the number of the chosen div, 0 without a candidate; the
\* sort is stable, so of the shortest candidates the first in the document
\* is chosen
DensityFallback(els) ==
    LET txt(i) == Strip(els[i].text)
        candidates == {i \in 1..Len(els) :
                          els[i].tag = "div" /\ CountCJK(txt(i)) > 100}
        max_cn == CHOOSE m \in {CountCJK(txt(i)) : i \in candidates} :
                      \A i \in candidates : CountCJK(txt(i)) <= m
        kept == {i \in candidates : 10 * CountCJK(txt(i)) >= 6 * max_cn}
    IN  IF candidates = {} THEN 0
        ELSE CHOOSE i \in kept :
                 \A j \in kept :
                     \/ Len(txt(i)) < Len(txt(j))
                     \/ Len(txt(i)) = Len(txt(j)) /\ i <= j

\* Container with the hashed-class pattern tried before the article tag
\* and the selector list
ContainerHashedFirst(els) ==
    LET articles == {i \in 1..Len(els) : els[i].tag = "article"}
        hashed == {i \in 1..Len(els) :
                      /\ els[i].tag = "div"
                      /\ els[i].class # <<>>
                      /\ content_class_re(els[i].class)}
    IN  IF hashed # {} THEN First(hashed)
        ELSE IF articles # {} THEN First(articles)
        ELSE IF BySelectors(els, 1) # 0 THEN BySelectors(els, 1)
        ELSE DensityFallback(els)

\* lines 237-277: the number of the container among els, 0 without one
Container(els) ==
    LET articles == {i \in 1..Len(els) : els[i].tag = "article"}
        hashed == {i \in 1..Len(els) :
                      /\ els[i].tag = "div"
                      /\ els[i].class # <<>>
                      /\ content_class_re(els[i].class)}
    IN  IF articles # {} THEN First(articles)
        ELSE IF BySelectors(els, 1) # 0 THEN BySelectors(els, 1)
        ELSE IF hashed # {} THEN First(hashed)
        ELSE DensityFallback(els)

Texts(els) == [i \in 1..Len(els) |-> els[i].text]

\* lines 279-282: the text of the container, else of the whole document,
\* which is the title's text and the text of what is left of the body
RawText(s) ==
    LET els == Decomposed(s.body)
    IN  IF Container(els) # 0 THEN get_text(<<els[Container(els)].text>>)
        ELSE get_text((IF s.title = None THEN <<>> ELSE <<s.title.s>>)
                      \o Texts(els))

\* lines 200 and 284-290
DomResult(s) ==
    LET meta == _extract_html_metadata(s)
    IN  [t |-> "result",
         text |-> _clean_article_text(RawText(s)),
         title |-> Str(MetaGet(meta, "title")),
         source_name |-> Str(MetaGet(meta, "source_name")),
         author |-> Str(MetaGet(meta, "author")),
         pub_date |-> Str(MetaGet(meta, "pub_date"))]

---------------------------------------------------------------------------
(* fetch_article_from_url: the call, step by step *)

\* lines 176-177
Start ==
    /\ pc = "start"
    /\ infzm_id' = _extract_infzm_content_id(url)
    /\ pc' = IF Truthy(infzm_id') THEN "adapter" ELSE "fetch"
    /\ UNCHANGED <<url, result, soup, wire, returned, log, fn, arg, ret,
                 history, folders, sqlite_sequence>>

\* lines 129-132: the one request to the content API; r is what comes back
SendApiRequest(r) ==
    /\ pc = "adapter"
    /\ wire' = r
    /\ log' = Append(log, "api")
    /\ pc' = "api_wait"
    /\ UNCHANGED <<url, infzm_id, result, soup, returned, fn, arg, ret,
                 history, folders, sqlite_sequence>>

\* Adapter asking the content API once more when the first attempt gave
\* nothing
AdapterRetries ==
    /\ pc = "api_wait"
    /\ result' = _fetch_infzm_article(wire)
    /\ wire' = None
    /\ IF result' # None /\ result'.text # <<>>
       THEN returned' = result' /\ pc' = "done"
       ELSE /\ returned' = returned
            /\ pc' = IF Len(log) < 2 THEN "adapter" ELSE "fetch"
    /\ UNCHANGED <<url, infzm_id, soup, log, fn, arg, ret,
                 history, folders, sqlite_sequence>>

\* lines 133-167 and 178-180
Adapter ==
    /\ pc = "api_wait"
    /\ result' = _fetch_infzm_article(wire)
    /\ wire' = None
    /\ IF result' # None /\ result'.text # <<>>
       THEN returned' = result' /\ pc' = "done"
       ELSE returned' = returned /\ pc' = "fetch"
    /\ UNCHANGED <<url, infzm_id, soup, log, fn, arg, ret,
                 history, folders, sqlite_sequence>>

\* line 188: the request for the page; r is what comes back
SendPageRequest(r) ==
    /\ pc = "fetch"
    /\ wire' = r
    /\ log' = Append(log, "page")
    /\ pc' = "page_wait"
    /\ UNCHANGED <<url, infzm_id, result, soup, returned, fn, arg, ret,
                 history, folders, sqlite_sequence>>

\* lines 188-190: requests.get raises, or the body is parsed whatever the
\* status
ParsePage ==
    /\ pc = "page_wait"
    /\ wire' = None
    /\ IF wire.kind # "response"
       THEN /\ returned' = Raise("RequestException")
            /\ pc' = "raised"
            /\ soup' = soup
       ELSE /\ soup' = wire.page
            /\ pc' = "json"
            /\ returned' = returned
    /\ UNCHANGED <<url, infzm_id, result, log, fn, arg, ret,
                 history, folders, sqlite_sequence>>

\* TryJson filling the empty fields of the result from the metadata tags
\* of the page
TryJsonMerged ==
    /\ pc = "json"
    /\ log' = Append(log, "json")
    /\ LET r == _try_extract_json_content(soup)
           meta == _extract_html_metadata(soup)
           Fill(v, k) == IF v = EmptyStr THEN Str(MetaGet(meta, k)) ELSE v
       IN  IF IsExc(r)
           THEN returned' = r /\ pc' = "raised" /\ result' = result
           ELSE /\ result' = r
                /\ IF r # None
                   THEN /\ returned' = [r EXCEPT !.title = Fill(@, "title"),
                                                 !.source_name = Fill(@, "source_name"),
                                                 !.author = Fill(@, "author"),
                                                 !.pub_date = Fill(@, "pub_date")]
                        /\ pc' = "done"
                   ELSE returned' = returned /\ pc' = "dom"
    /\ UNCHANGED <<url, infzm_id, soup, wire, fn, arg, ret,
                 history, folders, sqlite_sequence>>

\* TryJson going on to the DOM heuristic whatever the extractor returned
TryJsonGoesOn ==
    /\ pc = "json"
    /\ log' = Append(log, "json")
    /\ result' = _try_extract_json_content(soup)
    /\ ~ IsExc(result')
    /\ pc' = "dom"
    /\ UNCHANGED <<url, infzm_id, soup, wire, returned, fn, arg, ret,
                 history, folders, sqlite_sequence>>

\* lines 193-196
TryJson ==
    /\ pc = "json"
    /\ log' = Append(log, "json")
    /\ LET r == _try_extract_json_content(soup)
       IN  IF IsExc(r)
           THEN returned' = r /\ pc' = "raised" /\ result' = result
           ELSE /\ result' = r
                /\ IF r # None
                   THEN returned' = r /\ pc' = "done"
                   ELSE returned' = returned /\ pc' = "dom"
    /\ UNCHANGED <<url, infzm_id, soup, wire, fn, arg, ret,
                 history, folders, sqlite_sequence>>

\* lines 198-290
TryDom ==
    /\ pc = "dom"
    /\ log' = Append(log, "dom")
    /\ returned' = DomResult(soup)
    /\ pc' = "done"
    /\ UNCHANGED <<url, infzm_id, result, soup, wire, fn, arg, ret,
                 history, folders, sqlite_sequence>>

---------------------------------------------------------------------------
(* The inputs *)

MaxUrlChunks == 4
MaxPars == 2

\* all sequences of at most n elements of S
SeqsUpTo(S, n) == UNION {[1..k -> S] : k \in 0..n}

Scheme == <<"h","t","t","p","s",":","/","/","w","w","w",".">>
HashRoute == InfzmWap \o <<"/">> \o HashContent
HashRouteNoSlash == InfzmWap \o HashContent
ContentNoS == <<"i","n","f","z","m",".","c","o","m","/","c","o","n","t","e","n","t","/">>
SixDigits == <<"1","2","3","4","5","6">>

\* the pieces URLs are made of: the scheme, the two routes of the adapter,
\* the hash route without its optional slash, a path that is neither
\* route, digits and a letter
UrlChunks ==
    {Scheme, HashRoute, HashRouteNoSlash, InfzmContents, ContentNoS,
     SixDigits, <<"7">>, <<"x">>}
AllUrls == {Concat(cs) : cs \in SeqsUpTo(UrlChunks, MaxUrlChunks)}

\* one URL of each kind for the whole call
HashUrl == Scheme \o HashRoute \o SixDigits
ServerUrl == Scheme \o InfzmContents \o SixDigits
OtherUrl == Scheme \o <<"x">>
MainUrls == {HashUrl, ServerUrl, OtherUrl}

\* paragraphs: ideographs, a vote counter, a copyright line
PHan == <<"H","H","H","H","H">>
PCounter == <<"+","1">>
PFooter == <<"@"," ","H","H">>
Paragraphs == {PHan, PCounter, PFooter}

RECURSIVE Html(_)
\* the markup of the paragraphs ps
Html(ps) ==
    IF ps = <<>> THEN <<>>
    ELSE <<"<","p",">">> \o Head(ps) \o <<"<","/","p",">">> \o Html(Tail(ps))

Markups == {Html(ps) : ps \in SeqsUpTo(Paragraphs, MaxPars)}

\* a string of n ideographs
Han(n) == [i \in 1..n |-> "H"]

\* the content object of an API response
ApiContent(html, mode, wc) ==
    Obj([fulltext |-> Str(html),
         subject |-> Str(<<"H","H">>),
         author |-> Str(<<"H">>),
         publish_time |-> Str(<<"2","0","2","3","-","0","5","-","0","7"," ","1","0",":","0","0",":","0","0">>),
         word_count |-> Num(wc),
         pay_property |-> IF mode = <<>> THEN None ELSE Obj([mode |-> Str(mode)])])

ApiEnvelope(c) == Obj([data |-> Obj([content |-> c])])

Response(status, is_json, json) ==
    [kind |-> "response", status_code |-> status, is_json |-> is_json,
     json |-> json, page |-> None]
ConnectionError ==
    [kind |-> "ConnectionError", status_code |-> 0, is_json |-> FALSE,
     json |-> None, page |-> None]

\* the responses on which _fetch_infzm_article is to give None: a network
\* error, a status other than 200, a body that is no JSON, no content object
ApiFailures ==
    {ConnectionError, Response(404, FALSE, None), Response(500, TRUE, EmptyObj),
     Response(200, FALSE, None), Response(200, TRUE, EmptyObj),
     Response(200, TRUE, Obj([data |-> None])),
     Response(200, TRUE, Obj([data |-> EmptyObj])),
     Response(200, TRUE, ApiEnvelope(EmptyObj)),
     Response(200, TRUE, ApiEnvelope(None))}

WordCounts == {0, 9, 10, 30}
Modes == {<<>>, Pay, Meterage, <<"f","r","e","e">>}
ApiContents ==
    {ApiContent(m, mode, wc) : m \in Markups, mode \in Modes, wc \in WordCounts}

\* the API responses of the whole call: the failures, and a free and a paid
\* article of each markup
MainApiResponses ==
    ApiFailures
    \cup {Response(200, TRUE, ApiEnvelope(ApiContent(m, mode, 30))) :
            m \in Markups, mode \in {<<>>, Pay}}

MaxBodyEls == 2

Json(v) == [kind |-> "json", json |-> v, mentions |-> FALSE, blob |-> None]
Js(mentions, blob) ==
    [kind |-> "js", json |-> None, mentions |-> mentions, blob |-> blob]
NextData(txt) == [id |-> "__NEXT_DATA__", string |-> txt]
Inline(txt) == [id |-> "", string |-> txt]

\* the hydration data of thepaper.cn around a contentDetail
Hydration(detail) ==
    Obj([props |-> Obj([pageProps |->
        Obj([detailData |-> Obj([contentDetail |-> detail])])])])
\* hydration data with obj under the key k of pageProps
GenericHydration(k, obj) ==
    Obj([props |-> Obj([pageProps |-> Obj([j \in {k} |-> obj])])])

\* the script tags of the pages of the whole call: none; hydration data
\* with a title and each markup as content; with a contentDetail that has
\* neither title nor content; that is a list; without an article; with a
\* generic article; hydration text that is no JSON beside an inline
\* literal; inline literals of some markups, and one that does not decode
MainScripts ==
    {<<>>}
    \cup {<<NextData(Json(Hydration(Obj([name |-> Str(<<"H","H">>),
                                         content |-> Str(m)]))))>> :
            m \in Markups}
    \cup {<<NextData(Json(Hydration(Obj([id |-> Num(1)]))))>>,
          <<NextData(Json(List(0)))>>,
          <<NextData(Json(Obj([props |-> Obj([pageProps |-> EmptyObj])])))>>,
          <<NextData(Json(GenericHydration("article",
                            Obj([content |-> Str(Han(51))]))))>>,
          <<NextData(Js(FALSE, None)),
            Inline(Js(TRUE, Obj([contentDetail |->
                                    Obj([content |-> Str(Html(<<PHan>>))])])))>>,
          <<Inline(Js(TRUE, Obj([content_detail |->
                                    Obj([content |-> Str(Html(<<PFooter>>))])])))>>,
          <<Inline(Js(TRUE, Raise("JSONDecodeError")))>>,
          <<Inline(Js(FALSE, None))>>}

Element(tag, class, id, text) ==
    [tag |-> tag, role |-> "", class |-> class, id |-> id, text |-> text]

\* body elements: an article with a footer line, a sidebar, a vote
\* counter, a div dense with ideographs
MainElements ==
    {Element("article", <<>>, "", PHan \o <<NL>> \o PFooter),
     Element("div", <<"Sidebar">>, "", PHan),
     Element("p", <<>>, "", PCounter),
     Element("div", <<"main">>, "", Han(101))}

NoMeta == [k \in {} |-> <<>>]
MainHeads ==
    {[title |-> None, meta |-> NoMeta],
     [title |-> None,
      meta |-> [k \in {"og:title", "publisher"} |-> <<"H", "H">>]],
     [title |-> Str(<<"H","H"," ","-"," ","H","H">>),
      meta |-> [k \in {"og:site_name", "author", "date"} |->
                   IF k = "date" THEN <<"2","0","2","3","-","0","5","-","0","7","T","1","0",":","0","0">> ELSE <<"H">>]]}

MainPages ==
    {[scripts |-> sc, meta |-> h.meta, title |-> h.title, body |-> b] :
        sc \in MainScripts, h \in MainHeads,
        b \in SeqsUpTo(MainElements, MaxBodyEls)}

PageResponse(page) ==
    [kind |-> "response", status_code |-> 200, is_json |-> FALSE,
     json |-> None, page |-> page]

\* the responses _fetch_infzm_article is called on by itself
InfzmResponses ==
    ApiFailures \cup {Response(200, TRUE, ApiEnvelope(c)) : c \in ApiContents}

MaxTitleChunks == 4

\* publish times: a year, a month and a day of one or two digits, dashes
\* or slashes between them, with or without a time of day; and three
\* strings that start with no date
DateStrings ==
    {<<"2","0","2","3">> \o s1 \o m \o s2 \o d \o r :
        s1 \in {<<"-">>, <<"/">>}, s2 \in {<<"-">>, <<"/">>},
        m \in {<<"5">>, <<"0","5">>, <<"1","2">>},
        d \in {<<"7">>, <<"0","7">>, <<"3","1">>},
        r \in {<<>>, <<" ","1","0",":","0","0">>}}
    \cup {<<>>, <<"2","0","2","3","0","5","0","7">>, <<"5","/","7","/","2","0","2","3">>}

\* a dict of the fields fs whose value is not None
Fields(fs) == Obj([k \in {f \in DOMAIN fs : fs[f] # None} |-> fs[k]])

\* contentDetail dicts: with and without a title, with no content, an
\* empty one, one of 50 and one of 51 characters, and no publish time; and
\* with each publish time, with and without a pubTimeLong
Details ==
    {Fields([id |-> Num(1), name |-> n, content |-> c]) :
        n \in {None, Str(<<"H","H">>)},
        c \in {None, EmptyStr, Str(Han(50)), Str(Han(51))}}
    \cup {Fields([name |-> Str(<<"H","H">>), content |-> Str(Han(51)),
                  pubTime |-> Str(d), pubTimeLong |-> l]) :
            d \in DateStrings, l \in {None, Num(16834)}}

\* dicts under a key of pageProps: a body of 0, 50 or 51 characters under
\* one of four field names, with and without a title
GenericObjs ==
    {Fields([f \in {k, "title"} |-> IF f = k THEN Str(Han(n)) ELSE t]) :
        k \in {"content", "body", "text", "html"}, n \in {0, 50, 51},
        t \in {None, Str(<<"H","H">>)}}

\* what _extract_from_nextdata is called on by itself
NextDataInputs ==
    {Hydration(d) : d \in Details}
    \cup {GenericHydration(k, o) :
            k \in {"article", "post", "news", "detail", "data", "story"},
            o \in GenericObjs}
    \cup {EmptyObj, Obj([props |-> Obj([pageProps |-> EmptyObj])])}

TitleChunks ==
    {<<"H","H">>, <<"a">>, <<" ","-"," ">>, <<"-">>, <<"_">>, <<"|">>, <<NL>>}

\* the tags of each field but the title, in the order they are read
SourceNameTags == <<"og:site_name", "source", "publisher">>
AuthorTags == <<"author", "article:author">>
PubDateTags ==
    <<"article:published_time", "og:article:published_time", "publishdate",
      "publish_date", "date", "PubDate">>

\* the content tag number i of a field has when it has one: a name, or a
\* time stamp of more than 10 characters, that tells the tags apart
TagValue(tags, i) ==
    IF tags = PubDateTags
    THEN <<" ","2","0","2","3","-","0","5","-","0",DigitChar(i),"T","1","0",":","0","0">>
    ELSE <<" ","H",DigitChar(i)," ">>

\* the metadata of the pages on which each of the tags is missing, blank
\* or has its content
TagChoicesOf(tags) ==
    {[k \in {tags[i] : i \in {j \in 1..Len(tags) : a[j] # "missing"}} |->
         LET i == CHOOSE j \in 1..Len(tags) : tags[j] = k
         IN  IF a[i] = "blank" THEN <<" ">> ELSE TagValue(tags, i)] :
        a \in [1..Len(tags) -> {"missing", "blank", "content"}]}

TagChoices ==
    TagChoicesOf(SourceNameTags) \cup TagChoicesOf(AuthorTags)
    \cup TagChoicesOf(PubDateTags)

\* the pages _extract_html_metadata is called on by itself: every title
\* of at most MaxTitleChunks pieces, without an og:title, with an empty
\* one and with one of two ideographs
MetaPages ==
    {[scripts |-> <<>>, body |-> <<>>, title |-> t, meta |-> m] :
        t \in {None} \cup {Str(Concat(cs)) :
                              cs \in SeqsUpTo(TitleChunks, MaxTitleChunks)},
        m \in {NoMeta, [k \in {"og:title"} |-> <<" ">>],
               [k \in {"og:title"} |-> <<"H","H">>]}}
    \cup {[scripts |-> <<>>, body |-> <<>>, title |-> Str(<<"H","H","H">>),
           meta |-> m] : m \in TagChoices}

MaxDivs == 3

\* n ideographs followed by k Latin letters
HanLatin(n, k) == Han(n) \o [i \in 1..k |-> "x"]

\* elements for the density fallback: divs of 10, 101, 102, 150 and 170
\* ideographs, one of 140 ideographs and 20 letters, and a paragraph of
\* 150 ideographs
DensityElements ==
    {Element("div", <<>>, "", HanLatin(n, 0)) : n \in {10, 101, 102, 150, 170}}
    \cup {Element("div", <<>>, "", HanLatin(140, 20)),
          Element("p", <<>>, "", HanLatin(150, 0))}

\* elements for the cascade: an article, elements the selector list
\* names, a div and a span of a hashed class, a dense div, a paragraph
CascadeElements ==
    {Element("article", <<>>, "", PHan),
     Element("div", <<"news_txt">>, "", PHan),
     Element("div", <<"article-content">>, "", PHan \o PHan),
     Element("p", <<>>, "artibody", PHan),
     Element("div", <<"contentWrap__x9">>, "", PHan),
     Element("span", <<"contentWrap__x9">>, "", PHan),
     Element("div", <<"main">>, "", Han(101)),
     Element("p", <<>>, "", PHan \o PCounter)}

\* elements for the removal passes: class tokens and ids that are
\* vocabulary tokens, that are so but for their case, and that only
\* contain one; a nav tag, a banner role and a plain paragraph
BoilerplateElements ==
    {Element("div", <<"nav">>, "", PHan),
     Element("div", <<"navigation">>, "", PHan),
     Element("div", <<"Sidebar">>, "", PHan),
     Element("div", <<"main", "AD">>, "", PHan),
     Element("div", <<"sidebar-left">>, "", PHan),
     Element("div", <<>>, "Footer", PHan),
     Element("div", <<>>, "footer-links", PHan),
     Element("nav", <<>>, "", PHan),
     [Element("div", <<>>, "", PHan) EXCEPT !.role = "banner"],
     Element("p", <<>>, "", PHan)}

\* the pages the HTML-based extraction is run on by itself
DomPages ==
    {[scripts |-> <<>>, meta |-> NoMeta, title |-> None, body |-> b] :
        b \in SeqsUpTo(DensityElements, MaxDivs)
              \cup SeqsUpTo(CascadeElements, MaxBodyEls)
              \cup SeqsUpTo(BoilerplateElements, MaxBodyEls)}

MaxLines == 3

\* lines of raw text: ideographs, one ideograph, a vote counter, four and
\* five letters, four letters between blanks, an empty and a blank line,
\* ideographs between blanks, a copyright line and a line with the ICP
\* marker inside
RawLines ==
    {PHan, <<"H">>, PCounter, <<"a","b","c","d">>, <<"a","b","c","d","e">>,
     <<" ","a","b","c","d"," ">>, <<>>, <<" "," ">>, <<" ","H","H"," ">>,
     PFooter, <<"x","I","C","P","B","1">>}

\* the raw texts _clean_article_text is called on by itself: at most
\* MaxLines lines, with and without a line break at the end
RawTexts ==
    {Join(<<NL>>, ls) \o e :
        ls \in SeqsUpTo(RawLines, MaxLines), e \in {<<>>, <<NL>>}}

MaxScripts == 2

\* script tags with well-formed data: hydration data with a title and a
\* body, and an inline literal with a body
WellFormedTags ==
    {NextData(Json(Hydration(Obj([name |-> Str(<<"H","H">>),
                                  content |-> Str(Html(<<PHan>>))])))),
     Inline(Js(TRUE, Obj([contentDetail |->
                             Obj([content |-> Str(Html(<<PHan>>))])])))}

\* script tags with malformed data: hydration text that does not decode;
\* that decodes to a list or a number; whose props, pageProps, detailData
\* or contentDetail is no object; whose content is a number or a list; an
\* inline literal that does not decode; whose contentDetail is a list;
\* whose content is a number; and a script that mentions no content
MalformedTags ==
    {NextData(Js(FALSE, None)),
     NextData(Json(List(0))),
     NextData(Json(Num(1))),
     NextData(Json(Obj([props |-> List(1)]))),
     NextData(Json(Obj([props |-> Obj([pageProps |-> Str(<<"x">>)])]))),
     NextData(Json(Obj([props |->
        Obj([pageProps |-> Obj([detailData |-> List(1)])])]))),
     NextData(Json(Hydration(List(1)))),
     NextData(Json(Hydration(Obj([content |-> Num(7)])))),
     NextData(Json(GenericHydration("article", Obj([content |-> List(51)])))),
     Inline(Js(TRUE, Raise("JSONDecodeError"))),
     Inline(Js(TRUE, Obj([contentDetail |-> List(1)]))),
     Inline(Js(TRUE, Obj([contentDetail |-> Obj([content |-> Num(7)])]))),
     Inline(Js(FALSE, None))}

\* the pages _try_extract_json_content is called on by itself: at most
\* MaxScripts script tags
JsonPages ==
    {[scripts |-> sc, meta |-> NoMeta, title |-> None, body |-> <<>>] :
        sc \in SeqsUpTo(WellFormedTags \cup MalformedTags, MaxScripts)}

---------------------------------------------------------------------------
(* /translate and the history and folders tables *)

(* A row of history is [id, folder_id, position], a row of folders is      *)
(* [id, position]; the other columns take no part in the order of the      *)
(* entries.  Each handler runs its statements in one transaction, so a     *)
(* request is one step.  fn is the handler of the last request, arg what   *)
(* it was given, ret its reply and log the capabilities it called.         *)

MaxEntries == 2
MaxFolders == 1
MaxPosition == 1

\* the folder_id of an unfiled entry
NULL == -1

Reply(status, error) == [status |-> status, error |-> error]
Ok == Reply(200, "")

\* UPDATE history SET position = position + 1 WHERE folder_id is folder_id
\* AND position >= position
Shifted(h, folder_id, position) ==
    {IF r.folder_id = folder_id /\ r.position >= position
     THEN [r EXCEPT !.position = @ + 1] ELSE r : r \in h}

\* whether no row of h that Shifted(h, folder_id, position) moves is at
\* MaxPosition already
Room(h, folder_id, position) ==
    \A r \in h : (r.folder_id = folder_id /\ r.position >= position)
                    => r.position < MaxPosition

\* lines 586-587: (data.get(key) or "").strip()
Field(data, key) == Strip(Or(Get(data, key, None), EmptyStr).s)

\* chinese_text with the submitted text taken when the extraction gave
\* an empty one
chinese_textOrInput(data, fetched) ==
    IF Field(data, "url") # <<>> /\ fetched.text # <<>> THEN fetched.text
    ELSE Field(data, "text")

\* lines 599-610: fetched is what fetch_article_from_url returned
chinese_text(data, fetched) ==
    IF Field(data, "url") # <<>> THEN fetched.text
    ELSE Field(data, "text")

\* lines 623-629 with the position of every row of the table increased
PrependedAll(h, id) ==
    {[r EXCEPT !.position = @ + 1] : r \in h}
    \cup {[id |-> id, folder_id |-> NULL, position |-> 0]}

\* lines 623-629: the UPDATE and the INSERT of the new row id
Prepended(h, id) ==
    Shifted(h, NULL, 0) \cup {[id |-> id, folder_id |-> NULL, position |-> 0]}

\* lines 583-649: the reply of /translate and the capabilities called, in
\* order.  data is the decoded body (None when there is none), fetched
\* what fetch_article_from_url returns or raises on the URL, failing the
\* capability that raises ("none": neither does)
TranslateReply(data, fetched, failing) ==
    IF ~ Truthy(data) THEN
        [ret |-> Reply(400, "Invalid request. Please try again."), log |-> <<>>]
    ELSE IF Field(data, "text") = <<>> /\ Field(data, "url") = <<>> THEN
        [ret |-> Reply(400, "Please provide text or a URL."), log |-> <<>>]
    ELSE IF Field(data, "url") # <<>> /\ IsExc(fetched) THEN
        [ret |-> IF fetched.e = "RequestException"
                 THEN Reply(400, "Failed to fetch URL")
                 ELSE Reply(500, "Translation failed"),
         log |-> <<>>]
    ELSE IF chinese_text(data, fetched) = <<>> THEN
        [ret |-> Reply(400, "No text content found."), log |-> <<>>]
    ELSE IF failing = "translate_chinese_to_english" THEN
        [ret |-> Reply(500, "Translation failed"),
         log |-> <<"translate_chinese_to_english">>]
    ELSE IF failing = "generate_summary" THEN
        [ret |-> Reply(500, "Translation failed"),
         log |-> <<"translate_chinese_to_english", "generate_summary">>]
    ELSE
        [ret |-> Ok,
         log |-> <<"translate_chinese_to_english", "generate_summary">>]

\* lines 581-649
Translate(data, fetched, failing) ==
    /\ pc = "ready"
    /\ fn' = "translate"
    /\ arg' = [data |-> data,
               fetched |-> IF Truthy(data) /\ Field(data, "url") # <<>>
                           THEN fetched ELSE None]
    /\ ret' = TranslateReply(data, fetched, failing).ret
    /\ log' = TranslateReply(data, fetched, failing).log
    /\ IF ret' = Ok
       THEN /\ sqlite_sequence.history < MaxEntries
            /\ Room(history, NULL, 0)
            /\ history' = Prepended(history, sqlite_sequence.history + 1)
            /\ sqlite_sequence' =
                  [sqlite_sequence EXCEPT !.history = @ + 1]
       ELSE UNCHANGED <<history, sqlite_sequence>>
    /\ UNCHANGED <<pc, url, infzm_id, result, soup, wire, returned, folders>>

\* lines 821-848
HistoryMove(entry_id, folder_id, position) ==
    /\ pc = "ready"
    /\ fn' = "history_move"
    /\ arg' = [entry_id |-> entry_id, folder_id |-> folder_id,
               position |-> position]
    /\ IF \E r \in history : r.id = entry_id
       THEN /\ Room(history, folder_id, position)
            /\ history' =
                  {IF r.id = entry_id
                   THEN [r EXCEPT !.folder_id = folder_id,
                                  !.position = position]
                   ELSE r : r \in Shifted(history, folder_id, position)}
            /\ ret' = Ok
       ELSE history' = history /\ ret' = Reply(404, "Not found")
    /\ log' = <<>>
    /\ UNCHANGED <<pc, url, infzm_id, result, soup, wire, returned, folders,
                   sqlite_sequence>>

\* lines 733-739
HistoryDelete(entry_id) ==
    /\ pc = "ready"
    /\ fn' = "history_delete"
    /\ arg' = [entry_id |-> entry_id]
    /\ history' = {r \in history : r.id # entry_id}
    /\ ret' = Ok
    /\ log' = <<>>
    /\ UNCHANGED <<pc, url, infzm_id, result, soup, wire, returned, folders,
                   sqlite_sequence>>

\* lines 759-771: name is the name of the body, stripped
FolderCreate(name) ==
    /\ pc = "ready"
    /\ fn' = "folder_create"
    /\ arg' = [name |-> name]
    /\ IF name = <<>>
       THEN /\ ret' = Reply(400, "Name is required")
            /\ UNCHANGED <<folders, sqlite_sequence>>
       ELSE LET max_pos == IF folders = {} THEN -1
                           ELSE CHOOSE p \in {f.position : f \in folders} :
                                    \A f \in folders : f.position <= p
            IN  /\ sqlite_sequence.folders < MaxFolders
                /\ folders' = folders \cup
                      {[id |-> sqlite_sequence.folders + 1,
                        position |-> max_pos + 1]}
                /\ sqlite_sequence' =
                      [sqlite_sequence EXCEPT !.folders = @ + 1]
                /\ ret' = Ok
    /\ log' = <<>>
    /\ UNCHANGED <<pc, url, infzm_id, result, soup, wire, returned, history>>

\* lines 798-806
FolderDelete(folder_id) ==
    /\ pc = "ready"
    /\ fn' = "folder_delete"
    /\ arg' = [folder_id |-> folder_id]
    /\ history' = {IF r.folder_id = folder_id
                   THEN [r EXCEPT !.folder_id = NULL] ELSE r : r \in history}
    /\ folders' = {f \in folders : f.id # folder_id}
    /\ ret' = Ok
    /\ log' = <<>>
    /\ UNCHANGED <<pc, url, infzm_id, result, soup, wire, returned,
                   sqlite_sequence>>

\* the bodies of the requests to /translate: none, an empty one, a blank
\* text, a text, a URL, and a URL beside a text
TranslateBodies ==
    {None, EmptyObj,
     Obj([text |-> Str(<<" ">>)]),
     Obj([text |-> Str(PHan)]),
     Obj([url |-> Str(HashUrl)]),
     Obj([url |-> Str(HashUrl), text |-> Str(PHan)])}

\* what fetch_article_from_url gives on the URL: a result with a text, a
\* result with an empty text, and the exceptions that leave it
FetchOutcomes ==
    {[t |-> "result", text |-> tx, title |-> Str(<<"H","H">>),
      source_name |-> EmptyStr, author |-> EmptyStr, pub_date |-> EmptyStr] :
        tx \in {PHan, <<>>}}
    \cup {Raise("RequestException"), Raise("AttributeError")}

Capabilities == {"translate_chinese_to_english", "generate_summary"}

\* fetch_article_from_url is called when the body has a URL
FetchedFor(data) ==
    IF Truthy(data) /\ Field(data, "url") # <<>> THEN FetchOutcomes ELSE {None}

\* a capability can fail when the request gets as far as calling it
FailingFor(data, fetched) ==
    IF TranslateReply(data, fetched, "none").ret = Ok
    THEN Capabilities \cup {"none"} ELSE {"none"}

\* the ids of the requests: those AUTOINCREMENT can have given
EntryIds == 1..MaxEntries
FolderIds == 1..MaxFolders

---------------------------------------------------------------------------
(* The specifications *)

\* lines 28-98: the tables as init_db creates them
EmptyDb ==
    /\ history = {}
    /\ folders = {}
    /\ sqlite_sequence = [history |-> 0, folders |-> 0]

Idle == fn = "none" /\ arg = None /\ ret = None /\ EmptyDb

Init ==
    /\ pc = "start"
    /\ url \in MainUrls
    /\ infzm_id = None
    /\ result = None
    /\ soup = None
    /\ wire = None
    /\ returned = None
    /\ log = <<>>
    /\ Idle

Next ==
    \/ Start
    \/ \E r \in MainApiResponses : SendApiRequest(r)
    \/ Adapter
    \/ \E r \in {ConnectionError} \cup {PageResponse(p) : p \in MainPages} :
          SendPageRequest(r)
    \/ ParsePage
    \/ TryJson
    \/ TryDom

\* one call of fetch_article_from_url
Spec == Init /\ [][Next]_vars

\* lines 176-177 on every URL made of at most MaxUrlChunks pieces
InitUrl ==
    /\ pc = "start"
    /\ url \in AllUrls
    /\ infzm_id = None
    /\ result = None
    /\ soup = None
    /\ wire = None
    /\ returned = None
    /\ log = <<>>
    /\ Idle

SpecUrl == InitUrl /\ [][Start]_vars

\* no call of fetch_article_from_url under way
NoCall ==
    /\ url = <<>>
    /\ infzm_id = None
    /\ result = None
    /\ soup = None
    /\ wire = None
    /\ returned = None
    /\ log = <<>>
    /\ EmptyDb

\* _fetch_infzm_article called by itself on each response
InitInfzm ==
    /\ pc = "call"
    /\ fn = "_fetch_infzm_article"
    /\ arg \in InfzmResponses
    /\ ret = None
    /\ NoCall

CallInfzm ==
    /\ pc = "call"
    /\ fn = "_fetch_infzm_article"
    /\ ret' = _fetch_infzm_article(arg)
    /\ pc' = "returned"
    /\ UNCHANGED <<url, infzm_id, result, soup, wire, returned, log, fn, arg,
                 history, folders, sqlite_sequence>>

SpecInfzm == InitInfzm /\ [][CallInfzm]_vars

\* _extract_from_nextdata called by itself on each hydration data
InitNextData ==
    /\ pc = "call"
    /\ fn = "_extract_from_nextdata"
    /\ arg \in NextDataInputs
    /\ ret = None
    /\ NoCall

CallNextData ==
    /\ pc = "call"
    /\ fn = "_extract_from_nextdata"
    /\ ret' = _extract_from_nextdata(arg)
    /\ pc' = "returned"
    /\ UNCHANGED <<url, infzm_id, result, soup, wire, returned, log, fn, arg,
                 history, folders, sqlite_sequence>>

SpecNextData == InitNextData /\ [][CallNextData]_vars

\* _extract_html_metadata called by itself on each page
InitMeta ==
    /\ pc = "call"
    /\ fn = "_extract_html_metadata"
    /\ arg \in MetaPages
    /\ ret = None
    /\ NoCall

CallMeta ==
    /\ pc = "call"
    /\ fn = "_extract_html_metadata"
    /\ ret' = _extract_html_metadata(arg)
    /\ pc' = "returned"
    /\ UNCHANGED <<url, infzm_id, result, soup, wire, returned, log, fn, arg,
                 history, folders, sqlite_sequence>>

SpecMeta == InitMeta /\ [][CallMeta]_vars

\* the HTML-based extraction of lines 198-290 run by itself on each page,
\* step by step
InitDom ==
    /\ pc = "call"
    /\ fn = "html_extraction"
    /\ arg \in DomPages
    /\ ret = None
    /\ NoCall

\* lines 203-234: the passes that take elements out of the document
RemoveBoilerplate ==
    /\ pc = "call"
    /\ fn = "html_extraction"
    /\ soup' = [arg EXCEPT !.body = Decomposed(arg.body)]
    /\ pc' = "decomposed"
    /\ UNCHANGED <<url, infzm_id, result, wire, returned, log, fn, arg, ret,
                 history, folders, sqlite_sequence>>

\* lines 237-277: ret is the number of the container among the elements
\* left, 0 without one
LocateContainer ==
    /\ pc = "decomposed"
    /\ ret' = Num(Container(soup.body))
    /\ pc' = "located"
    /\ UNCHANGED <<url, infzm_id, result, soup, wire, returned, log, fn, arg,
                 history, folders, sqlite_sequence>>

\* lines 279-290
ExtractText ==
    /\ pc = "located"
    /\ ret' = DomResult(soup)
    /\ pc' = "returned"
    /\ UNCHANGED <<url, infzm_id, result, soup, wire, returned, log, fn, arg,
                 history, folders, sqlite_sequence>>

NextDom == RemoveBoilerplate \/ LocateContainer \/ ExtractText

SpecDom == InitDom /\ [][NextDom]_vars

\* _clean_article_text called by itself on each raw text, and then on
\* what it returned
InitClean ==
    /\ pc = "call"
    /\ fn = "_clean_article_text"
    /\ arg \in {Str(raw) : raw \in RawTexts}
    /\ ret = None
    /\ NoCall

CallClean ==
    /\ pc = "call"
    /\ fn = "_clean_article_text"
    /\ ret' = Str(_clean_article_text(arg.s))
    /\ pc' = "returned"
    /\ UNCHANGED <<url, infzm_id, result, soup, wire, returned, log, fn, arg,
                 history, folders, sqlite_sequence>>

\* result keeps what the first call returned
CallCleanAgain ==
    /\ pc = "returned"
    /\ fn = "_clean_article_text"
    /\ result' = ret
    /\ ret' = Str(_clean_article_text(ret.s))
    /\ pc' = "again"
    /\ UNCHANGED <<url, infzm_id, soup, wire, returned, log, fn, arg,
                 history, folders, sqlite_sequence>>

NextClean == CallClean \/ CallCleanAgain

SpecClean == InitClean /\ [][NextClean]_vars

\* the server after init_db, before its first request
InitDb ==
    /\ pc = "ready"
    /\ fn = "none"
    /\ arg = None
    /\ ret = None
    /\ NoCall

NextDb ==
    \/ \E data \in TranslateBodies : \E fetched \in FetchedFor(data) :
          \E failing \in FailingFor(data, fetched) :
              Translate(data, fetched, failing)
    \/ \E entry_id \in EntryIds, folder_id \in FolderIds \cup {NULL},
          position \in 0..MaxPosition :
          HistoryMove(entry_id, folder_id, position)
    \/ \E entry_id \in EntryIds : HistoryDelete(entry_id)
    \/ \E name \in {<<>>, <<"f">>} : FolderCreate(name)
    \/ \E folder_id \in FolderIds : FolderDelete(folder_id)

\* the requests to /translate, the history entries and the folders
SpecDb == InitDb /\ [][NextDb]_vars

\* _try_extract_json_content called by itself on each page
InitJson ==
    /\ pc = "call"
    /\ fn = "_try_extract_json_content"
    /\ arg \in JsonPages
    /\ ret = None
    /\ NoCall

CallJson ==
    /\ pc = "call"
    /\ fn = "_try_extract_json_content"
    /\ ret' = _try_extract_json_content(arg)
    /\ pc' = "returned"
    /\ UNCHANGED <<url, infzm_id, result, soup, wire, returned, log, fn, arg,
                 history, folders, sqlite_sequence>>

SpecJson == InitJson /\ [][CallJson]_vars

---------------------------------------------------------------------------
(* The claims about the whole call, under Spec *)

NonEmptyResult(r) == r # None /\ ~ IsExc(r) /\ r.text # <<>>

\* C1: the call never advances past a strategy that returned non-empty
\* text.  When the site adapter returns non-empty text the call ends with
\* that result, no page is requested and no other strategy runs; when the
\* structured-data extractor returns non-empty text the call ends with that
\* result and the DOM heuristic does not run; an ended call takes no step.
C1_FirstSuccessWins ==
    [][/\ (pc = "api_wait" /\ NonEmptyResult(result'))
            => (pc' = "done" /\ returned' = result' /\ log' = <<"api">>)
       /\ (pc = "json" /\ pc' # "raised" /\ NonEmptyResult(result'))
            => (pc' = "done" /\ returned' = result'
                /\ log' = Append(log, "json"))
       /\ pc = "done" => (pc' = "done" /\ log' = log /\ returned' = returned)
      ]_vars

\* C1 witness: the call ended with the text of the structured-data
\* extractor on a page whose DOM heuristic gives text too
C1_Witness ==
    /\ pc = "done"
    /\ log[Len(log)] = "json"
    /\ returned.text # <<>>
    /\ DomResult(soup).text # <<>>

\* C2: the call stops only on non-empty text: a result with empty text is
\* returned by no strategy but the last, the DOM heuristic
C2_AdvancesOnEmptyText ==
    (pc = "done" /\ returned.text = <<>>) => log[Len(log)] = "dom"

\* C3: the returned text is an output of the normalizer, whatever strategy
\* produced it: normalizing it again changes nothing
C3_ReturnedTextNormalized ==
    pc = "done" => returned.text = _clean_article_text(returned.text)

\* C4: no exception leaves the call
C4_NeverRaises == pc # "raised"

\* resp.json()["data"]["content"] where there is one, else None
ContentOf(r) ==
    IF /\ r.is_json
       /\ IsObj(r.json)
       /\ "data" \in DOMAIN r.json.o
       /\ IsObj(r.json.o["data"])
       /\ "content" \in DOMAIN r.json.o["data"].o
    THEN r.json.o["data"].o["content"]
    ELSE None

\* a network error, a status other than 200, a body that is no JSON, a
\* missing or empty content object
AdapterFailure(r) ==
    \/ r.kind = "ConnectionError"
    \/ r.status_code # 200
    \/ ~ r.is_json
    \/ ~ Truthy(ContentOf(r))

\* C5: on a network error, a status other than 200, a missing or empty
\* content object or a body that is no JSON, _fetch_infzm_article returns
\* None and nothing is raised; the call then requests the page and, on the
\* page that comes back, runs the structured-data strategy
C5_AdapterFailureGoesOn ==
    [][/\ (pc = "api_wait" /\ AdapterFailure(wire))
            => (result' = None /\ pc' = "fetch" /\ returned' = None)
       /\ pc = "fetch" => (pc' = "page_wait" /\ log' = Append(log, "page"))
       /\ (pc = "page_wait" /\ wire.kind = "response") => pc' = "json"
       /\ pc = "json" => log' = Append(log, "json")
      ]_vars

\* C5 witness: the adapter was called and gave None, the page was
\* requested and parsed, and the structured-data strategy is the next step
C5_Witness ==
    /\ pc = "json"
    /\ log = <<"api", "page">>
    /\ Truthy(infzm_id)
    /\ result = None
    /\ returned = None

\* whether the fetched document s holds some text: in its title or in an
\* element of its body
HasText(s) ==
    \/ s.title # None /\ Strip(s.title.s) # <<>>
    \/ \E i \in 1..Len(s.body) : Strip(s.body[i].text) # <<>>

\* C14: the DOM heuristic, once reached, gives non-empty text for every
\* fetched document that holds some text
C14_DomAlwaysText ==
    (pc = "done" /\ log[Len(log)] = "dom" /\ HasText(soup))
        => returned.text # <<>>

\* C15: a result with empty text has empty metadata: title, source_name,
\* author and pub_date are empty strings
C15_EmptyResult ==
    (pc = "done" /\ returned.text = <<>>) =>
        /\ returned.title = EmptyStr
        /\ returned.source_name = EmptyStr
        /\ returned.author = EmptyStr
        /\ returned.pub_date = EmptyStr

\* the page s without its title and its metadata tags
NoHead(s) == [s EXCEPT !.title = None, !.meta = NoMeta]

\* C16: a result of the site adapter or of the structured-data extractor
\* carries only that strategy's own metadata: the adapter's result is
\* returned before any page is fetched, with the adapter's fixed outlet
\* name; the extractor's result is the one it gives on the same page with
\* the title and the metadata tags taken away
C16_NoMetadataMerging ==
    /\ (pc = "done" /\ log = <<"api">>)
          => (soup = None /\ returned.source_name = Str(InfzmSourceName))
    /\ (pc = "done" /\ log[Len(log)] = "json")
          => returned = _try_extract_json_content(NoHead(soup))

\* C16 witness: the extractor's result with an empty title returned for a
\* page whose metadata tags give a title
C16_Witness ==
    /\ pc = "done"
    /\ log[Len(log)] = "json"
    /\ returned.title = EmptyStr
    /\ returned.text # <<>>
    /\ MetaGet(_extract_html_metadata(soup), "title") # <<>>

\* how many requests of kind k the call has sent
Requests(k) == Cardinality({i \in 1..Len(log) : log[i] = k})

\* C20: the call sends one request to the content API when the URL
\* matches the adapter pattern and none otherwise; no request is sent
\* twice; once the page has been requested no further request is sent;
\* and after an adapter attempt that gave no text the next thing the call
\* does is to request the page
C20_OneApiRequest ==
    /\ Requests("api") <= 1 /\ Requests("page") <= 1
    /\ ~ Truthy(infzm_id) => Requests("api") = 0
    /\ (Truthy(infzm_id) /\ pc \notin {"start", "adapter"}) => Requests("api") = 1
    /\ \A i \in 1..Len(log) : \A j \in (i + 1)..Len(log) :
          log[i] = "page" => log[j] \notin {"api", "page"}
    /\ (Truthy(infzm_id) /\ pc = "fetch") => log = <<"api">>
    /\ pc \in {"json", "dom"} => Requests("page") = 1

\* C20 witness: a call on an adapter URL that went through every
\* strategy with one request to the API and one for the page
C20_Witness ==
    /\ pc = "done"
    /\ Truthy(infzm_id)
    /\ log = <<"api", "page", "json", "dom">>

---------------------------------------------------------------------------
(* The claim about _extract_infzm_content_id, under SpecUrl *)

\* the places of u where route stands with a digit after it
RoutePlaces(u, route) ==
    {i \in 1..Len(u) : MatchLit(u, i, route) /\ IsDigitAt(u, i + Len(route))}

\* the digits of u from place g up to the first character that is none
DigitsFrom(u, g) == SubSeq(u, g, g + RunLen(u, g, Digits) - 1)

\* the digits after the leftmost hash route of u, with or without the slash
HashId(u) ==
    LET i == Min(RoutePlaces(u, HashRoute) \cup RoutePlaces(u, HashRouteNoSlash))
    IN  IF MatchLit(u, i, HashRoute) THEN DigitsFrom(u, i + Len(HashRoute))
        ELSE DigitsFrom(u, i + Len(HashRouteNoSlash))

HasHashRoute(u) ==
    RoutePlaces(u, HashRoute) \cup RoutePlaces(u, HashRouteNoSlash) # {}
HasServerRoute(u) == RoutePlaces(u, InfzmContents) # {}

\* C6: a hash-routed URL and a server-rendered URL with the same digits
\* give the same content id, those digits; the hash-routed pattern is tried
\* first and its first match wins; a URL that matches neither pattern
\* gives None, and the adapter is not invoked
C6_ContentId ==
    pc # "start" =>
        /\ \A pre \in {<<>>, Scheme} : \A d \in {SixDigits, <<"7">>} :
              url \in {pre \o HashRoute \o d, pre \o InfzmContents \o d}
                  => infzm_id = Str(d)
        /\ HasHashRoute(url) => infzm_id = Str(HashId(url))
        /\ (~ HasHashRoute(url) /\ HasServerRoute(url))
              => infzm_id = Str(DigitsFrom(url,
                     Min(RoutePlaces(url, InfzmContents)) + Len(InfzmContents)))
        /\ (HasHashRoute(url) \/ HasServerRoute(url)) => pc = "adapter"
        /\ (~ HasHashRoute(url) /\ ~ HasServerRoute(url))
              => (infzm_id = None /\ pc = "fetch")

\* C6 witness: a URL with the server-rendered route before the hash
\* route, whose id is the one of the hash route
C6_Witness ==
    /\ pc = "adapter"
    /\ url = InfzmContents \o <<"7">> \o HashRoute \o SixDigits
    /\ infzm_id = Str(SixDigits)

---------------------------------------------------------------------------
(* The claim about _fetch_infzm_article, under SpecInfzm *)

\* the bracketed note of line 155 without its two line breaks
NoteLine(n, word_count) == Suffix(PaywallNote(n, word_count), 3)

\* how many paywall notes text holds
NoteCount(text) == Cardinality({i \in 1..Len(text) : MatchLit(text, i, NoteHead)})

EndsWith(s, tail) ==
    Len(tail) <= Len(s) /\ Suffix(s, Len(s) - Len(tail) + 1) = tail

\* C7: when the item is metered or paid and fewer characters were
\* extracted than half the reported word_count, the text of the result
\* holds exactly one paywall note, after the body; otherwise it holds none
C7_PaywallNote ==
    (pc = "returned" /\ Truthy(ContentOf(arg)) /\ arg.status_code = 200) =>
        LET c == ContentOf(arg)
            body == get_text(ParseHtml(c.o["fulltext"].s))
            word_count == c.o["word_count"].n
            paid == /\ c.o["pay_property"] # None
                    /\ c.o["pay_property"].o["mode"] \in {Str(Meterage), Str(Pay)}
        IN  IF paid /\ 2 * Len(body) < word_count
            THEN /\ ret # None
                 /\ NoteCount(ret.text) = 1
                 /\ EndsWith(ret.text, NoteLine(Len(body), word_count))
            ELSE ret = None \/ NoteCount(ret.text) = 0

---------------------------------------------------------------------------
(* The claims about _extract_from_nextdata, under SpecNextData *)

Pad2(d) == IF Len(d) = 1 THEN <<"0">> \o d ELSE d

\* the contentDetail of hydration data that has one, else None
DetailOf(data) ==
    IF /\ "props" \in DOMAIN data.o
       /\ "detailData" \in DOMAIN data.o["props"].o["pageProps"].o
    THEN data.o["props"].o["pageProps"].o["detailData"].o["contentDetail"]
    ELSE None

\* C8: when the publish time of a contentDetail starts with a date
\* YYYY-M-D or YYYY/M/D, month and day of one or two digits, the pub_date
\* of the result is that date as the ten characters YYYY-MM-DD
C8_PubDateTenChars ==
    (pc = "returned" /\ DetailOf(arg) # None) =>
        \A y \in {<<"2","0","2","3">>} :
        \A m \in {<<"5">>, <<"0","5">>, <<"1","2">>} :
        \A d \in {<<"7">>, <<"0","7">>, <<"3","1">>} :
        \A s1 \in {<<"-">>, <<"/">>} : \A s2 \in {<<"-">>, <<"/">>} :
        \A r \in {<<>>, <<" ","1","0",":","0","0">>} :
            (/\ "pubTime" \in DOMAIN DetailOf(arg).o
             /\ "pubTimeLong" \notin DOMAIN DetailOf(arg).o
             /\ DetailOf(arg).o["pubTime"] = Str(y \o s1 \o m \o s2 \o d \o r))
            => /\ ret.pub_date = Str(y \o <<"-">> \o Pad2(m) \o <<"-">> \o Pad2(d))
               /\ Len(ret.pub_date.s) = 10

\* the lengths of the content, body and text fields of the dict o
BodyLens(o) ==
    {Len(o.o[f].s) : f \in {"content", "body", "text"} \cap DOMAIN o.o}

\* the dicts of the hydration data in which a body is looked for: the
\* contentDetail and the dicts under the generic keys
BodyDicts(data) ==
    IF "props" \notin DOMAIN data.o THEN {}
    ELSE (IF DetailOf(data) # None THEN {DetailOf(data)} ELSE {})
         \cup {data.o["props"].o["pageProps"].o[k] :
                 k \in {"article", "post", "news", "detail", "data"}
                       \cap DOMAIN data.o["props"].o["pageProps"].o}

\* C9: a result comes from a hydration-data block only when a dict on the
\* contentDetail path or under a generic key has a content, body or text
\* field longer than 50 characters; with the field absent, empty or of at
\* most 50 characters there is no result
C9_BodyLongerThan50 ==
    pc = "returned" =>
        (ret # None <=> \E o \in BodyDicts(arg) : \E n \in BodyLens(o) : n > 50)

---------------------------------------------------------------------------
(* The claim about _extract_html_metadata, under SpecMeta *)

Max(S) == CHOOSE x \in S : \A y \in S : y <= x

\* the places of title t where a separator stands: a hyphen between two
\* blanks, an underscore, a vertical bar, an en dash or an em dash
SeparatorPlaces(t) ==
    {j \in 1..Len(t) :
        \/ t[j] \in TitleSeps \ {"-"}
        \/ /\ t[j] = "-"
           /\ 1 < j /\ j < Len(t)
           /\ t[j - 1] = " " /\ t[j + 1] = " "}

\* C10: without an og:title the title is the text of the title tag up to
\* its last separator, the segment after that separator taken off and
\* everything before it kept
C10_TitleLastSeparator ==
    (pc = "returned" /\ arg.title # None /\ MetaContent(arg, "og:title") = <<>>) =>
        LET t == Strip(arg.title.s)
            seps == SeparatorPlaces(t)
        IN  MetaGet(ret, "title") =
                IF seps = {} THEN t ELSE Strip(SubSeq(t, 1, Max(seps) - 1))

---------------------------------------------------------------------------
(* The claims about the HTML-based extraction, under SpecDom *)

\* the number of ideographs of the stripped text of element el
Ideographs(el) ==
    Cardinality({k \in 1..Len(Strip(el.text)) : Strip(el.text)[k] \in {"H", "B"}})

\* the divs of els with more than 100 ideographs
DenseDivs(els) ==
    {i \in 1..Len(els) : els[i].tag = "div" /\ Ideographs(els[i]) > 100}

\* of the dense divs those with at least 0.6 times the greatest count
TopDivs(els) ==
    {i \in DenseDivs(els) :
        \A j \in DenseDivs(els) : 10 * Ideographs(els[i]) >= 6 * Ideographs(els[j])}

\* no element of els is an article or has a class or an id
Unmarked(els) ==
    \A i \in 1..Len(els) :
        els[i].tag # "article" /\ els[i].class = <<>> /\ els[i].id = ""

\* C11: in the density fallback the candidates are the divs of more than
\* 100 ideographs; those below 0.6 times the greatest count are discarded;
\* the container is one of the rest with the least text length, and there
\* is no container when there is no candidate
C11_DensityFallback ==
    (pc = "located" /\ Unmarked(soup.body)) =>
        IF DenseDivs(soup.body) = {} THEN ret = Num(0)
        ELSE /\ ret.n \in TopDivs(soup.body)
             /\ \A j \in TopDivs(soup.body) :
                   Len(Strip(soup.body[ret.n].text))
                       <= Len(Strip(soup.body[j].text))

\* C11 witness: divs of 150, 140 and 10 ideographs, the one of 140 being
\* the longer text: the div of 150 is the container
C11_Witness ==
    /\ pc = "located"
    /\ Len(soup.body) = 3
    /\ soup.body[1].text = HanLatin(140, 20)
    /\ soup.body[2].text = HanLatin(150, 0)
    /\ soup.body[3].text = HanLatin(10, 0)
    /\ \A i \in 1..3 : soup.body[i].tag = "div"
    /\ ret = Num(2)

\* the elements of els that are article tags
ArticleTags(els) == {i \in 1..Len(els) : els[i].tag = "article"}

\* the elements of els selector number k names
SelectorHits(els, k) ==
    {i \in 1..Len(els) :
        IF selectors[k].attr = "class"
        THEN \E c \in 1..Len(els[i].class) : els[i].class[c] = selectors[k].val
        ELSE els[i].id = selectors[k].val}

\* the selectors that name some element of els
HittingSelectors(els) ==
    {k \in 1..Len(selectors) : SelectorHits(els, k) # {}}

\* the divs of els whose class matches the hashed-class pattern
HashedDivs(els) ==
    {i \in 1..Len(els) :
        els[i].tag = "div" /\ els[i].class # <<>> /\ content_class_re(els[i].class)}

\* C17: the container is the first article tag; without one, the first
\* element of the first selector of the list that names any; without one,
\* the first div of a hashed class; without one, a div of the density
\* fallback; and the text of the whole document is used only when none of
\* these gives a container
C17_ContainerCascade ==
    [][/\ pc = "decomposed" =>
            LET els == soup.body
            IN  IF ArticleTags(els) # {} THEN ret' = Num(Min(ArticleTags(els)))
                ELSE IF HittingSelectors(els) # {}
                     THEN ret' = Num(Min(SelectorHits(els, Min(HittingSelectors(els)))))
                ELSE IF HashedDivs(els) # {} THEN ret' = Num(Min(HashedDivs(els)))
                ELSE IF DenseDivs(els) # {} THEN ret'.n \in TopDivs(els)
                ELSE ret' = Num(0)
       /\ pc = "located" =>
            ret'.text = _clean_article_text(
                            IF ret.n # 0 THEN Strip(soup.body[ret.n].text)
                            ELSE get_text(Texts(soup.body)))
      ]_vars

\* C17 witness: an article after a div of a hashed class is the container
C17_Witness ==
    /\ pc = "located"
    /\ Len(soup.body) = 2
    /\ soup.body[1].class = <<"contentWrap__x9">> /\ soup.body[1].tag = "div"
    /\ soup.body[2].tag = "article"
    /\ ret = Num(2)

\* the elements of els, of whatever tag, whose class matches the
\* hashed-class pattern
HashedElements(els) ==
    {i \in 1..Len(els) : els[i].class # <<>> /\ content_class_re(els[i].class)}

\* C22: when neither the article tag nor the selector list gives a
\* container, the first element in document order, of whatever tag, whose
\* joined class list matches the hashed content-wrapper pattern becomes
\* the container
C22_HashedAnyTag ==
    [][(/\ pc = "decomposed"
        /\ ArticleTags(soup.body) = {}
        /\ HittingSelectors(soup.body) = {}
        /\ HashedElements(soup.body) # {})
          => ret' = Num(Min(HashedElements(soup.body)))]_vars

\* the vocabulary as the claim lists it
ListedVocabulary ==
    {"navigation", "menu", "sidebar", "footer", "header", "banner",
     "breadcrumb", "comments", "share", "social", "related", "recommend",
     "ad", "ads", "advertisement", "app-download", "copyright",
     "disclaimer", "legal", "privacy", "feedback", "login", "signup"}

\* the listed vocabulary with nav and navbar in the place of navigation
NavVocabulary == (ListedVocabulary \ {"navigation"}) \cup {"nav", "navbar"}

\* whether a class token of el, or its id, is a token of vocabulary v but
\* for its case
NamedIn(el, v) ==
    \/ \E i \in 1..Len(el.class) : Lower(el.class[i]) \in v
    \/ el.id # "" /\ Lower(el.id) \in v

\* elements the passes by tag and by role leave alone
PlainElement(el) == el.tag \notin RemovedTags /\ el.role \notin RemovedRoles

\* whether element el of the document is left after the removal passes
LeftIn(el, body) == \E i \in 1..Len(body) : body[i] = el

\* C18 as stated: an element with a class token or an id that is, but for
\* its case, a token of the listed vocabulary is removed, and an element
\* whose class tokens and id only hold such a token inside is not
C18_ListedVocabulary ==
    pc = "decomposed" =>
        \A i \in 1..Len(arg.body) :
            PlainElement(arg.body[i]) =>
                /\ NamedIn(arg.body[i], ListedVocabulary)
                      => ~ LeftIn(arg.body[i], soup.body)
                /\ (/\ ~ NamedIn(arg.body[i], ListedVocabulary)
                    /\ NamedIn(arg.body[i], {"sidebar-left", "footer-links"}))
                      => LeftIn(arg.body[i], soup.body)

\* C18 amended: the vocabulary holds nav and navbar, not navigation.  Of
\* the elements the passes by tag and by role leave alone, those removed
\* are the ones with a class token or an id that is a vocabulary token but
\* for its case; one whose token only holds a vocabulary token inside
\* (navigation, sidebar-left, footer-links) stays
C18_ExactTokenRemoval ==
    pc = "decomposed" =>
        /\ \A i \in 1..Len(arg.body) :
              PlainElement(arg.body[i]) =>
                  (LeftIn(arg.body[i], soup.body)
                      <=> ~ NamedIn(arg.body[i], NavVocabulary))
        /\ soup.body = SelectSeq(arg.body,
                                 LAMBDA el : /\ PlainElement(el)
                                             /\ ~ NamedIn(el, NavVocabulary))

\* C18 witness: of a div of class navigation and a div of class Sidebar
\* only the first is left
C18_Witness ==
    /\ pc = "decomposed"
    /\ Len(arg.body) = 2
    /\ arg.body[1].class = <<"navigation">>
    /\ arg.body[2].class = <<"Sidebar">>
    /\ soup.body = <<arg.body[1]>>

---------------------------------------------------------------------------
(* The claims about _clean_article_text, under SpecClean *)

\* the numbers of the lines of raw that hold a footer marker
MarkerLines(raw) ==
    {i \in 1..Len(SplitLines(raw)) :
        \E marker \in footer_markers : Contains(SplitLines(raw)[i], marker)}

\* a line that is neither blank nor at most 4 characters without ideograph
KeptLine(line) ==
    /\ Strip(line) # <<>>
    /\ ~ (/\ Len(Strip(line)) <= 4
          /\ \A i \in 1..Len(Strip(line)) : Strip(line)[i] \notin {"H", "B"})

StripAll(ls) == [i \in 1..Len(ls) |-> Strip(ls[i])]

\* C12: when a line of the input holds a footer marker, the output holds
\* no line at or after the first such line: it is made of the kept lines
\* before that line, in their order, and of nothing else
C12_FooterCutoff ==
    (pc = "returned" /\ MarkerLines(arg.s) # {}) =>
        LET cut == Min(MarkerLines(arg.s))
            before == SubSeq(SplitLines(arg.s), 1, cut - 1)
        IN  /\ ret.s = Join(<<NL>>, StripAll(SelectSeq(before, KeptLine)))
            /\ \A marker \in footer_markers : ~ Contains(ret.s, marker)

\* C12 witness: a kept line, a marker line, and a line after it that
\* would have been kept
C12_Witness ==
    /\ pc = "returned"
    /\ arg.s = PHan \o <<NL>> \o PFooter \o <<NL>> \o <<"a","b","c","d","e">>
    /\ ret.s = PHan

\* the lines of raw before the first line with a footer marker
BeforeMarker(raw) ==
    IF MarkerLines(raw) = {} THEN SplitLines(raw)
    ELSE SubSeq(SplitLines(raw), 1, Min(MarkerLines(raw)) - 1)

\* the places of the lines that are not blank, at most 4 characters long
\* and without ideograph
ShortLines(ls) ==
    {i \in 1..Len(ls) : Strip(ls[i]) # <<>> /\ ~ KeptLine(ls[i])}

\* C23: a line of at most 4 characters without ideograph is skipped and
\* the scan goes on: every later line before the first marker line that
\* is not blank and is longer than 4 characters or holds an ideograph is
\* in the output, and the output lines are the kept lines in input order
C23_ShortLineSkipped ==
    (pc = "returned" /\ ShortLines(BeforeMarker(arg.s)) # {}) =>
        LET before == BeforeMarker(arg.s)
            out == SplitLines(ret.s)
        IN  /\ \A j \in ShortLines(before) : \A i \in (j + 1)..Len(before) :
                  KeptLine(before[i]) =>
                      \E k \in 1..Len(out) : out[k] = Strip(before[i])
            /\ \A k \in 1..Len(out) : KeptLine(out[k])
            /\ out = StripAll(SelectSeq(before, KeptLine))

\* C23 witness: a vote counter, and two kept lines after it that come out
\* in their order
C23_Witness ==
    /\ pc = "returned"
    /\ arg.s = PCounter \o <<NL>> \o <<"a","b","c","d","e">> \o <<NL>> \o <<"H">>
    /\ ret.s = <<"a","b","c","d","e">> \o <<NL>> \o <<"H">>

\* C13: _clean_article_text applied to its own output returns it
\* unchanged
C13_Idempotent ==
    pc = "again" => ret = result

\* C13 witness: an input that the first call changes and whose output has
\* two lines
C13_Witness ==
    /\ pc = "again"
    /\ arg.s = <<" ","a","b","c","d"," ">> \o <<NL>> \o <<" ","H","H"," ">>
                 \o <<NL>> \o <<"a","b","c","d","e">>
    /\ result.s = <<"H","H">> \o <<NL>> \o <<"a","b","c","d","e">>
    /\ ret = result

---------------------------------------------------------------------------
(* The claim about the priority of the metadata tags, under SpecMeta *)

\* of the tags, in their order, the numbers of those page s has with a
\* content that is not empty once trimmed
LiveTags(s, tags) ==
    {i \in 1..Len(tags) :
        tags[i] \in DOMAIN s.meta /\ Strip(s.meta[tags[i]]) # <<>>}

\* the trimmed content of the first live tag, the empty string without one
FirstLive(s, tags) ==
    IF LiveTags(s, tags) = {} THEN <<>>
    ELSE Strip(s.meta[tags[Min(LiveTags(s, tags))]])

\* field f of the returned metadata is the string v, and missing when v
\* is empty; the result built from the metadata carries v
FieldIs(f, v) ==
    /\ IF v = <<>> THEN f \notin DOMAIN ret ELSE f \in DOMAIN ret /\ ret[f] = v
    /\ DomResult(arg)[f] = Str(v)

\* C19: each field is taken from the first tag of its list whose content
\* is not empty once trimmed: the title from og:title, then from the title
\* tag; source_name from og:site_name, source, publisher; author from
\* author, article:author; pub_date, cut to 10 characters, from
\* article:published_time, og:article:published_time, publishdate,
\* publish_date, date, PubDate; a field without such a tag is missing from
\* the metadata and an empty string in the result
C19_TagPriority ==
    pc = "returned" =>
        /\ FieldIs("source_name", FirstLive(arg, SourceNameTags))
        /\ FieldIs("author", FirstLive(arg, AuthorTags))
        /\ FieldIs("pub_date", Prefix(FirstLive(arg, PubDateTags), 10))
        /\ LiveTags(arg, <<"og:title">>) # {}
              => FieldIs("title", FirstLive(arg, <<"og:title">>))
        /\ (LiveTags(arg, <<"og:title">>) = {} /\ arg.title = None)
              => FieldIs("title", <<>>)
        /\ (/\ LiveTags(arg, <<"og:title">>) = {}
            /\ arg.title # None
            /\ \A i \in 1..Len(arg.title.s) : arg.title.s[i] \notin TitleSeps)
              => FieldIs("title", Strip(arg.title.s))

\* C19 witness: og:site_name is blank, source is missing and publisher
\* has a content, which is the source_name
C19_Witness ==
    /\ pc = "returned"
    /\ "og:site_name" \in DOMAIN arg.meta
    /\ Strip(arg.meta["og:site_name"]) = <<>>
    /\ "source" \notin DOMAIN arg.meta
    /\ "publisher" \in DOMAIN arg.meta
    /\ "source_name" \in DOMAIN ret
    /\ ret["source_name"] = <<"H", "3">>

---------------------------------------------------------------------------
(* The claims about _try_extract_json_content, under SpecJson *)

\* whether every script tag of the page s holds malformed data
AllMalformed(s) ==
    \A i \in 1..Len(s.scripts) : s.scripts[i] \in MalformedTags

\* C21: the structured-data extractor absorbs every malformed payload: it
\* never raises, whether the JSON does not decode or decodes to an
\* unexpected shape, and on a page whose script tags all hold malformed
\* data it returns no result.
C21_AbsorbsMalformed ==
    (pc = "returned" /\ fn = "_try_extract_json_content")
        => /\ ~ IsExc(ret)
           /\ AllMalformed(arg) => ret = None

---------------------------------------------------------------------------
(* The claim about the paywall note of an empty article, under Spec *)

\* a response 200 of the content API whose content object has an empty
\* fulltext
EmptyFulltext(r) ==
    /\ r.kind = "response" /\ r.status_code = 200
    /\ Truthy(ContentOf(r))
    /\ ContentOf(r).o["fulltext"] = EmptyStr

\* whether the content object of r is marked metered or paid
MarkedPaid(r) ==
    /\ ContentOf(r).o["pay_property"] # None
    /\ ContentOf(r).o["pay_property"].o["mode"] \in {Str(Meterage), Str(Pay)}

\* C28: on a content object with an empty fulltext, marked metered or
\* paid, with a word_count other than 0, _fetch_infzm_article returns a
\* result whose text is the paywall note alone, and the call returns that
\* result without requesting the page or trying another strategy; on one
\* that is not marked paid the text of the adapter's result is empty and
\* the call goes on to request the page
C28_NoteOnlyResult ==
    [][(pc = "api_wait" /\ EmptyFulltext(wire)) =>
          IF MarkedPaid(wire) /\ ContentOf(wire).o["word_count"].n # 0
          THEN /\ result'.text = NoteLine(0, ContentOf(wire).o["word_count"].n)
               /\ returned' = result'
               /\ pc' = "done"
               /\ log' = <<"api">>
          ELSE /\ result' # None
               /\ result'.text = <<>>
               /\ returned' = None
               /\ pc' = "fetch"
      ]_vars

\* C28 witness: the call is over after the one request to the API, and
\* what it returned has the paywall note of 0 of 30 characters as its text
C28_Witness ==
    /\ pc = "done"
    /\ log = <<"api">>
    /\ returned # None
    /\ returned.text = NoteLine(0, 30)
    /\ NoteCount(returned.text) = 1

---------------------------------------------------------------------------
(* The claims about /translate, history and folders, under SpecDb *)

\* a request to /translate with a URL on which the extraction gave a
\* result with an empty text
EmptyExtraction(a) ==
    /\ Truthy(a.data)
    /\ Field(a.data, "url") # <<>>
    /\ ~ IsExc(a.fetched)
    /\ a.fetched.text = <<>>

\* C24: when the extraction for a submitted URL gives an empty text,
\* /translate replies 400 with the error "No text content found.", calls
\* neither the translation nor the summarization capability, inserts no
\* history row and leaves the position of every history row as it was
C24_NoTextFound ==
    [][(fn' = "translate" /\ EmptyExtraction(arg')) =>
          /\ ret' = Reply(400, "No text content found.")
          /\ log' = <<>>
          /\ history' = history
          /\ sqlite_sequence' = sqlite_sequence
      ]_vars

\* C24 witness: a request with a URL and a text whose extraction was
\* empty got the error, with two entries in the table
C24_Witness ==
    /\ fn = "translate"
    /\ EmptyExtraction(arg)
    /\ Field(arg.data, "text") # <<>>
    /\ ret.status = 400
    /\ log = <<>>
    /\ Cardinality(history) = 2

\* C27: a successful /translate prepends the new entry to Unfiled: the
\* new row has folder_id NULL and position 0, every row that was unfiled
\* has its position increased by exactly 1, every row that is in a folder
\* keeps its folder_id and position, and no other row comes or goes
C27_PrependsToUnfiled ==
    [][(fn' = "translate" /\ ret' = Ok) =>
          LET id == sqlite_sequence'.history
          IN  /\ \A r \in history : r.id # id
              /\ [id |-> id, folder_id |-> NULL, position |-> 0] \in history'
              /\ \A r \in history :
                    IF r.folder_id = NULL
                    THEN [r EXCEPT !.position = @ + 1] \in history'
                    ELSE r \in history'
              /\ Cardinality(history') = Cardinality(history) + 1
      ]_vars

\* C27 witness: after a successful /translate the new entry is first in
\* Unfiled and the entry that was first is second
C27_Witness ==
    /\ fn = "translate"
    /\ ret = Ok
    /\ history = {[id |-> 1, folder_id |-> NULL, position |-> 1],
                  [id |-> 2, folder_id |-> NULL, position |-> 0]}

\* C25: no two history entries of the same folder, the unfiled ones
\* counted as one folder, have the same position
C25_UniquePositions ==
    \A r1 \in history : \A r2 \in history :
        (r1.folder_id = r2.folder_id /\ r1.position = r2.position) => r1 = r2

\* C26: the folder_id of every history entry is NULL or the id of a
\* folder that exists
C26_FolderExists ==
    \A r \in history :
        r.folder_id = NULL \/ \E f \in folders : f.id = r.folder_id

===========================================================================
